---------------------------- MODULE Spec2Model ----------------------------
(***************************************************************************)
(* A model of lite3_service (l3kv): the Merkle index, the write-ahead log, *)
(* the storage engine and the anti-entropy sync manager.                   *)
(*                                                                         *)
(* Conventions                                                             *)
(*   - a byte is a number in 0..255; a string, a key, a payload and a file *)
(*     are sequences of bytes;                                             *)
(*   - a uint64_t is the sequence of its 8 bytes, least significant first  *)
(*     (the byte order the code hashes and sends them in), so that the     *)
(*     64-bit arithmetic of fnv1a_64 is exact;                             *)
(*   - the Merkle tree keeps its 5 levels (0..4) and is scaled in width:   *)
(*     Fanout children per node where the source has 16.                   *)
(***************************************************************************)
EXTENDS Integers, Sequences, FiniteSets, TLC

(***************************************************************************)
(* Bounds of the model.                                                    *)
(***************************************************************************)
\* children per Merkle node (16 in merkle.hpp; the leaf level has Fanout^4 buckets)
Fanout == 2
\* apply_delta calls recorded after a marked get_root_hash() (SpecMerkle)
MaxCalls == 3
\* operations one engine is asked to run
MaxOps == 3
\* largest wall-clock reading and largest wall time of a received mutation
MaxWall == 2
\* largest logical counter of a received mutation
MaxLogical == 0
\* WAL writes that fail in one run
MaxWalFails == 1
\* operations the two engines of SpecPair are asked to run, together
MaxPairOps == 3
\* operations the engine of SpecRecover is asked to run
MaxRecOps == 2

(***************************************************************************)
(* Bytes and 64-bit words.                                                 *)
(***************************************************************************)
Byte == 0..255

RECURSIVE BitXor(_, _)
BitXor(a, b) ==
  IF a = 0 THEN b
  ELSE IF b = 0 THEN a
  ELSE ((a + b) % 2) + 2 * BitXor(a \div 2, b \div 2)

\* a ^ b on bytes, tabulated once
XorByte == [a \in Byte |-> [b \in Byte |-> BitXor(a, b)]]

Zero64 == <<0, 0, 0, 0, 0, 0, 0, 0>>

\* a ^ b on uint64_t
Xor64(a, b) ==
  <<XorByte[a[1]][b[1]], XorByte[a[2]][b[2]], XorByte[a[3]][b[3]],
    XorByte[a[4]][b[4]], XorByte[a[5]][b[5]], XorByte[a[6]][b[6]],
    XorByte[a[7]][b[7]], XorByte[a[8]][b[8]]>>

\* the uint64_t whose value is the small number v (v < 65536)
U64(v) == <<v % 256, v \div 256, 0, 0, 0, 0, 0, 0>>

\* 0xcbf29ce484222325, least significant byte first
FnvOffset == <<37, 35, 34, 132, 228, 156, 242, 203>>

\* hash *= 0x100000001b3 (mod 2^64).  The prime has the bytes
\* b3 01 00 00 00 01 00 00 (least significant first), so column i of the
\* product is h[i] * 0xb3 + h[i-1] + h[i-5] plus the carry of column i-1
FnvMul(h) ==
  LET s1 == h[1] * 179
      s2 == h[2] * 179 + h[1] + (s1 \div 256)
      s3 == h[3] * 179 + h[2] + (s2 \div 256)
      s4 == h[4] * 179 + h[3] + (s3 \div 256)
      s5 == h[5] * 179 + h[4] + (s4 \div 256)
      s6 == h[6] * 179 + h[5] + h[1] + (s5 \div 256)
      s7 == h[7] * 179 + h[6] + h[2] + (s6 \div 256)
      s8 == h[8] * 179 + h[7] + h[3] + (s7 \div 256)
  IN  <<s1 % 256, s2 % 256, s3 % 256, s4 % 256,
        s5 % 256, s6 % 256, s7 % 256, s8 % 256>>

\* hash ^= ptr[i]; hash *= prime
FnvStep(h, b) ==
  FnvMul(<<XorByte[h[1]][b], h[2], h[3], h[4], h[5], h[6], h[7], h[8]>>)

RECURSIVE FnvFrom(_, _, _, _)
\* the loop over data[lo..hi], evaluated by halves to keep the nesting shallow
FnvFrom(h, data, lo, hi) ==
  IF lo > hi THEN h
  ELSE IF lo = hi THEN FnvStep(h, data[lo])
  ELSE LET mid  == (lo + hi) \div 2
           left == FnvFrom(h, data, lo, mid)
       IN  IF Len(left) = 8 THEN FnvFrom(left, data, mid + 1, hi) ELSE left

fnv1a_64(data) == FnvFrom(FnvOffset, data, 1, Len(data))

(***************************************************************************)
(* MerkleTree (merkle.hpp).                                                *)
(***************************************************************************)
LeafLevel == 4

RECURSIVE Pow(_, _)
Pow(b, e) == IF e = 0 THEN 1 ELSE b * Pow(b, e - 1)

\* layers_[l].size()
LayerSize(l) == Pow(Fanout, l)

\* (k_hash >> 48) & 0xFFFF, the top 16 bits of the key hash, scaled to the
\* LayerSize(4) buckets of the model (the top bits when that is a power of 2)
BucketOf(key) ==
  LET kh == fnv1a_64(key)
      top16 == kh[8] * 256 + kh[7]
  IN  (top16 * LayerSize(LeafLevel)) \div 65536

\* MerkleTree(): every layer zero, every dirty bit clear
MerkleInit ==
  [layers |-> [l \in 0..LeafLevel |-> [i \in 0..(LayerSize(l) - 1) |-> Zero64]],
   dirty  |-> [l \in 0..LeafLevel |-> [i \in 0..(LayerSize(l) - 1) |-> FALSE]]]

RECURSIVE mark_dirty(_, _, _)
mark_dirty(dirty, level, idx) ==
  IF level > 0
  THEN LET parent == idx \div Fanout
       IN  IF ~dirty[level - 1][parent]
           THEN mark_dirty([dirty EXCEPT ![level - 1][parent] = TRUE],
                           level - 1, parent)
           ELSE dirty
  ELSE dirty

\* layers_[4][bucket_idx] ^= hash_delta; mark_dirty(4, bucket_idx)
apply_delta(m, key, hash_delta) ==
  LET bucket_idx == BucketOf(key)
  IN  [layers |-> [m.layers EXCEPT ![LeafLevel][bucket_idx] = Xor64(@, hash_delta)],
       dirty  |-> mark_dirty(m.dirty, LeafLevel, bucket_idx)]

RECURSIVE ChildBytes(_, _, _)
ChildBytes(layer, first, k) ==
  IF k = Fanout THEN <<>> ELSE layer[first + k] \o ChildBytes(layer, first, k + 1)

\* fnv1a_64(&layers_[l+1][i * 16], 16 * sizeof(uint64_t))
NodeHash(children, i) == fnv1a_64(ChildBytes(children, i * Fanout, 0))

\* one "Level l" loop of recompute_dirty
RecomputeLevel(m, l) ==
  [layers |-> [m.layers EXCEPT ![l] =
                 [i \in DOMAIN @ |->
                    IF m.dirty[l][i] THEN NodeHash(m.layers[l + 1], i) ELSE @[i]]],
   dirty  |-> [m.dirty EXCEPT ![l] = [i \in DOMAIN @ |-> FALSE]]]

recompute_dirty(m) ==
  RecomputeLevel(RecomputeLevel(RecomputeLevel(RecomputeLevel(m, 3), 2), 1), 0)

\* the value get_root_hash() returns in state m
get_root_hash(m) == recompute_dirty(m).layers[0][0]

\* the value get_node_hash(level, index) returns in state m
get_node_hash(m, level, index) ==
  IF level < 0 \/ level > LeafLevel THEN Zero64
  ELSE IF index >= LayerSize(level) THEN Zero64
  ELSE recompute_dirty(m).layers[level][index]

(***************************************************************************)
(* Strings: std::string as a sequence of bytes.                            *)
(***************************************************************************)
RECURSIVE IndexFrom(_, _, _)
\* the first index >= i of s that holds byte b, 0 if none (std::string::find)
IndexFrom(s, i, b) ==
  IF i > Len(s) THEN 0 ELSE IF s[i] = b THEN i ELSE IndexFrom(s, i + 1, b)

HasPrefixAt(s, i, p) ==
  /\ i + Len(p) - 1 <= Len(s)
  /\ SubSeq(s, i, i + Len(p) - 1) = p

EndsWith(s, suffix) ==
  /\ Len(s) >= Len(suffix)
  /\ SubSeq(s, Len(s) - Len(suffix) + 1, Len(s)) = suffix

IsDigit(b) == b \in 48..57

RECURSIVE DigitsEnd(_, _)
\* the first index >= i of s that holds no decimal digit
DigitsEnd(s, i) ==
  IF i <= Len(s) /\ IsDigit(s[i]) THEN DigitsEnd(s, i + 1) ELSE i

RECURSIVE DecFrom(_, _, _, _)
DecFrom(s, i, j, acc) ==
  IF i >= j THEN acc ELSE DecFrom(s, i + 1, j, acc * 10 + (s[i] - 48))

\* the number written in decimal in s[i..j-1]
DecVal(s, i, j) == DecFrom(s, i, j, 0)

RECURSIVE to_string(_)
\* std::to_string of a non-negative integer
to_string(v) ==
  IF v < 10 THEN <<48 + v>> ELSE to_string(v \div 10) \o <<48 + (v % 10)>>

\* little-endian bytes of small non-negative numbers
Le16(v) == <<v % 256, (v \div 256) % 256>>
Le32(v) == <<v % 256, (v \div 256) % 256, (v \div 65536) % 256, v \div 16777216>>
Le64(v) == Le32(v) \o <<0, 0, 0, 0>>
Val16(s, i) == s[i] + 256 * s[i + 1]
Val32(s, i) == s[i] + 256 * s[i + 1] + 65536 * s[i + 2] + 16777216 * s[i + 3]

\* ":meta", "ts", "l", "n", "tombstone"
MetaSuffix == <<58, 109, 101, 116, 97>>
StrTs == <<116, 115>>
StrL == <<108>>
StrN == <<110>>
StrTombstone == <<116, 111, 109, 98, 115, 116, 111, 110, 101>>

(***************************************************************************)
(* lite3cpp::Buffer and lite3_json (buffer.hpp and json.hpp are not in the *)
(* source tree).  A buffer is its byte image.  The image of an object is a *)
(* header byte followed by its fields in insertion order, each             *)
(*   [len(name)] name [type] value                                         *)
(* with an Int64 as 8 bytes, a Bool as 1 byte and a String as [len] bytes. *)
(* The engine needs of it only a stable byte image, whole overwrite and    *)
(* setting a named field in place (spec 4.D).                              *)
(***************************************************************************)
ObjHeader == <<1>>
TypeCode == [Bool |-> 1, Int64 |-> 2, String |-> 4]
TypeOfCode(c) == IF c = 1 THEN "Bool" ELSE IF c = 2 THEN "Int64" ELSE "String"

EncodeValue(type, val) ==
  IF type = "Int64" THEN Le64(val)
  ELSE IF type = "Bool" THEN <<IF val THEN 1 ELSE 0>>
  ELSE <<Len(val)>> \o val

EncodeEntry(e) ==
  <<Len(e.name)>> \o e.name \o <<TypeCode[e.type]>> \o EncodeValue(e.type, e.val)

RECURSIVE EncodeEntries(_, _)
EncodeEntries(es, i) ==
  IF i > Len(es) THEN <<>> ELSE EncodeEntry(es[i]) \o EncodeEntries(es, i + 1)

\* the byte image of the object with fields es
ObjImage(es) == ObjHeader \o EncodeEntries(es, 1)

IsObject(img) == Len(img) >= 1 /\ img[1] = ObjHeader[1]

RECURSIVE DecodeFrom(_, _)
DecodeFrom(img, i) ==
  IF i > Len(img) THEN <<>>
  ELSE LET nlen == img[i]
           name == SubSeq(img, i + 1, i + nlen)
           type == TypeOfCode(img[i + nlen + 1])
           v    == i + nlen + 2
       IN  IF type = "Int64"
           THEN <<[name |-> name, type |-> type, val |-> Val32(img, v)]>>
                  \o DecodeFrom(img, v + 8)
           ELSE IF type = "Bool"
           THEN <<[name |-> name, type |-> type, val |-> (img[v] = 1)]>>
                  \o DecodeFrom(img, v + 1)
           ELSE <<[name |-> name, type |-> type,
                   val |-> SubSeq(img, v + 1, v + img[v])]>>
                  \o DecodeFrom(img, v + 1 + img[v])

\* the fields of an object image
Fields(img) == DecodeFrom(img, 2)

FieldIndex(es, name) ==
  IF \E i \in 1..Len(es) : es[i].name = name
  THEN CHOOSE i \in 1..Len(es) : es[i].name = name
  ELSE 0

\* set a named field: in place when present, appended otherwise
SetEntry(es, name, type, val) ==
  LET e == [name |-> name, type |-> type, val |-> val]
      i == FieldIndex(es, name)
  IN  IF i = 0 THEN Append(es, e) ELSE [es EXCEPT ![i] = e]

\* Buffer::get_type(0, name): "Null" for a missing field or a non-object
get_type(img, name) ==
  IF ~IsObject(img) THEN "Null"
  ELSE LET es == Fields(img)
           i  == FieldIndex(es, name)
       IN  IF i = 0 THEN "Null" ELSE es[i].type

\* Buffer::get_i64 / get_bool / get_str of a field known to be present
get_field(img, name) ==
  LET es == Fields(img) IN es[FieldIndex(es, name)].val

\* Buffer::get_i64(0, name) as the engine uses it: 0 when the field is no number
get_i64(img, name) ==
  IF get_type(img, name) = "Int64" THEN get_field(img, name) ELSE 0

JsonFail == [ok |-> FALSE, entries |-> <<>>]

\* a JSON value at t[i]: an integer, true, false or a string
JsonValue(t, i) ==
  IF i > Len(t) THEN [ok |-> FALSE]
  ELSE IF IsDigit(t[i])
  THEN LET j == DigitsEnd(t, i)
       IN  [ok |-> TRUE, type |-> "Int64", val |-> DecVal(t, i, j), next |-> j]
  ELSE IF HasPrefixAt(t, i, <<116, 114, 117, 101>>)
  THEN [ok |-> TRUE, type |-> "Bool", val |-> TRUE, next |-> i + 4]
  ELSE IF HasPrefixAt(t, i, <<102, 97, 108, 115, 101>>)
  THEN [ok |-> TRUE, type |-> "Bool", val |-> FALSE, next |-> i + 5]
  ELSE IF t[i] = 34 /\ IndexFrom(t, i + 1, 34) # 0
  THEN LET j == IndexFrom(t, i + 1, 34)
       IN  [ok |-> TRUE, type |-> "String", val |-> SubSeq(t, i + 1, j - 1),
            next |-> j + 1]
  ELSE [ok |-> FALSE]

RECURSIVE JsonPairs(_, _, _)
\* the members "name":value[,...] of an object from t[i] to its closing brace
JsonPairs(t, i, acc) ==
  IF ~(i <= Len(t) /\ t[i] = 34) THEN JsonFail
  ELSE LET j == IndexFrom(t, i + 1, 34)
       IN  IF j = 0 \/ j + 1 > Len(t) \/ t[j + 1] # 58 THEN JsonFail
           ELSE LET v == JsonValue(t, j + 2)
                IN  IF ~v.ok \/ v.next > Len(t) THEN JsonFail
                    ELSE LET acc2 == SetEntry(acc, SubSeq(t, i + 1, j - 1),
                                              v.type, v.val)
                         IN  IF t[v.next] = 44
                             THEN JsonPairs(t, v.next + 1, acc2)
                             ELSE IF t[v.next] = 125 /\ v.next = Len(t)
                             THEN [ok |-> TRUE, entries |-> acc2]
                             ELSE JsonFail

\* lite3_json::from_json_string on a flat object; ok = FALSE where it throws
from_json_string(t) ==
  IF Len(t) < 2 \/ t[1] # 123 THEN JsonFail
  ELSE IF t = <<123, 125>> THEN [ok |-> TRUE, entries |-> <<>>]
  ELSE JsonPairs(t, 2, <<>>)

(***************************************************************************)
(* Blob (store.hpp).                                                       *)
(***************************************************************************)
\* Blob(): buf_.init_object()
BlobNew == ObjImage(<<>>)

\* Blob::overwrite(data): JSON when it starts with { or [ and parses, raw
\* bytes otherwise
overwrite(data) ==
  IF data # <<>> /\ data[1] \in {123, 91}
  THEN LET r == from_json_string(data)
       IN  IF r.ok THEN ObjImage(r.entries) ELSE data
  ELSE data

\* Blob::set_int, Blob::set_str on an object
set_int(img, field, val) == ObjImage(SetEntry(Fields(img), field, "Int64", val))
set_str(img, field, val) == ObjImage(SetEntry(Fields(img), field, "String", val))

(***************************************************************************)
(* WriteAheadLog (wal.hpp).  The file is a sequence of bytes.              *)
(***************************************************************************)
OpPut == 1
OpPatchI64 == 2
OpDelete == 3
OpBatch == 4
OpPatchStr == 5

\* sizeof(LogHeader): crc 4, op 1, key_len 2, payload_len 4 (packed)
HeaderSize == 11

Xor32(a, b) ==
  <<XorByte[a[1]][b[1]], XorByte[a[2]][b[2]], XorByte[a[3]][b[3]],
    XorByte[a[4]][b[4]]>>

\* crc = (crc >> 1) ^ (0xEDB88320 & (-(crc & 1)))
CrcRound(c) ==
  LET shifted == <<(c[1] \div 2) + 128 * (c[2] % 2),
                   (c[2] \div 2) + 128 * (c[3] % 2),
                   (c[3] \div 2) + 128 * (c[4] % 2),
                   c[4] \div 2>>
  IN  IF c[1] % 2 = 1 THEN Xor32(shifted, <<32, 131, 184, 237>>) ELSE shifted

RECURSIVE CrcRounds(_, _)
CrcRounds(c, j) == IF j = 0 THEN c ELSE CrcRounds(CrcRound(c), j - 1)

\* the 8 rounds of the inner loop applied to the low byte b alone; the upper
\* three bytes pass through the 8 shifts unchanged, so that after crc ^= p[i]
\* the 8 rounds give  CrcTable[low byte] ^ (crc >> 8)
CrcTable == [b \in Byte |-> CrcRounds(<<b, 0, 0, 0>>, 8)]

\* crc ^= p[i]; then the 8 rounds
CrcByte(c, b) == Xor32(CrcTable[XorByte[c[1]][b]], <<c[2], c[3], c[4], 0>>)

RECURSIVE CrcFrom(_, _, _, _)
\* process(data, len) over data[lo..hi], evaluated by halves
CrcFrom(c, data, lo, hi) ==
  IF lo > hi THEN c
  ELSE IF lo = hi THEN CrcByte(c, data[lo])
  ELSE LET mid  == (lo + hi) \div 2
           left == CrcFrom(c, data, lo, mid)
       IN  IF Len(left) = 4 THEN CrcFrom(left, data, mid + 1, hi) ELSE left

\* compute_crc(op, key, payload): CRC-32 over [op][key][payload]
compute_crc(op, key, payload) ==
  LET data == <<op>> \o key \o payload
      c == CrcFrom(<<255, 255, 255, 255>>, data, 1, Len(data))
  IN  <<255 - c[1], 255 - c[2], 255 - c[3], 255 - c[4]>>

\* the bytes append() writes: LogHeader{crc, op, (uint16_t)key.size(),
\* (uint32_t)payload.size()}, key, payload
WalFrame(op, key, payload) ==
  compute_crc(op, key, payload) \o <<op>> \o Le16(Len(key) % 65536)
    \o Le32(Len(payload)) \o key \o payload

\* WriteAheadLog::append: the frame is written, or the write fails and the
\* error is printed (ok = FALSE); nothing is returned or thrown either way
append(file, op, key, payload, ok) ==
  IF ok THEN file \o WalFrame(op, key, payload) ELSE file

RECURSIVE BatchBody_WideKeyLen(_, _)
\* the key length written with append4 instead of append2
BatchBody_WideKeyLen(ops, i) ==
  IF i > Len(ops) THEN <<>>
  ELSE <<ops[i].op>> \o Le32(Len(ops[i].key)) \o ops[i].key
         \o Le32(Len(ops[i].value)) \o ops[i].value
         \o BatchBody_WideKeyLen(ops, i + 1)

RECURSIVE BatchBody(_, _)
\* [Op:1][KeyLen:2][Key][ValLen:4][Val] for each op
BatchBody(ops, i) ==
  IF i > Len(ops) THEN <<>>
  ELSE <<ops[i].op>> \o Le16(Len(ops[i].key) % 65536) \o ops[i].key
         \o Le32(Len(ops[i].value)) \o ops[i].value \o BatchBody(ops, i + 1)

\* WriteAheadLog::append_batch
append_batch(file, ops, ok) ==
  append(file, OpBatch, <<>>, Le32(Len(ops)) \o BatchBody(ops, 1), ok)

RECURSIVE BatchCalls(_, _, _, _, _)
\* the sub-operation loop of recover: the callback calls of one BATCH payload
\* p from position ptr, sub-operation i of count; rec numbers the record
BatchCalls(p, ptr, i, count, rec) ==
  IF i >= count THEN <<>>
  ELSE IF ptr > Len(p) THEN <<>>
  ELSE IF ptr + 2 > Len(p) THEN <<>>
  ELSE LET op_byte == p[ptr]
           klen    == Val16(p, ptr + 1)
           kpos    == ptr + 3
       IN  IF kpos + klen - 1 > Len(p) THEN <<>>
           ELSE IF kpos + klen + 3 > Len(p) THEN <<>>
           ELSE LET vlen == Val32(p, kpos + klen)
                    vpos == kpos + klen + 4
                IN  IF vpos + vlen - 1 > Len(p) THEN <<>>
                    ELSE <<[op |-> op_byte,
                            key |-> SubSeq(p, kpos, kpos + klen - 1),
                            payload |-> SubSeq(p, vpos, vpos + vlen - 1),
                            rec |-> rec, sub |-> i + 1, count |-> count]>>
                           \o BatchCalls(p, vpos + vlen, i + 1, count, rec)

RECURSIVE RecoverFrom(_, _, _)
\* the while (true) loop of recover from file position pos: the callback
\* calls in order
RecoverFrom(file, pos, rec) ==
  IF pos + HeaderSize - 1 > Len(file) THEN <<>>
  ELSE LET crc  == SubSeq(file, pos, pos + 3)
           op   == file[pos + 4]
           klen == Val16(file, pos + 5)
           plen == Val32(file, pos + 7)
           kpos == pos + HeaderSize
           ppos == kpos + klen
       IN  IF kpos + klen - 1 > Len(file) THEN <<>>
           ELSE IF ppos + plen - 1 > Len(file) THEN <<>>
           ELSE LET key      == SubSeq(file, kpos, kpos + klen - 1)
                    payload  == SubSeq(file, ppos, ppos + plen - 1)
                    computed == compute_crc(op, key, payload)
                    here     ==
                      IF op = OpBatch
                      THEN IF plen < 4 THEN <<>>
                           ELSE BatchCalls(payload, 5, 0, Val32(payload, 1), rec)
                      ELSE <<[op |-> op, key |-> key, payload |-> payload,
                              rec |-> rec, sub |-> 1, count |-> 1]>>
                IN  IF computed # crc
                       /\ ~(crc = <<0, 0, 0, 0>> /\ computed # <<0, 0, 0, 0>>)
                    THEN <<>>
                    ELSE here \o RecoverFrom(file, ppos + plen, rec + 1)

\* WriteAheadLog::recover: the sequence of callback(op, key, payload) calls
recover(file) == RecoverFrom(file, 1, 1)

(***************************************************************************)
(* Timestamp and HybridLogicalClock::now (clock.hpp, clock.cpp).           *)
(***************************************************************************)
\* Timestamp::operator<
TsLess(a, b) ==
  IF a.wall_time # b.wall_time THEN a.wall_time < b.wall_time
  ELSE IF a.logical # b.logical THEN a.logical < b.logical
  ELSE a.node_id < b.node_id

\* Timestamp::operator<= : !(*this > o)
TsLeq(a, b) == ~TsLess(b, a)

ZeroTs == [wall_time |-> 0, logical |-> 0, node_id |-> 0]

\* HybridLogicalClock(node_id)
ClockInit == [max_wall_time |-> 0, max_logical |-> 0]

\* the clock after now() read the physical time phys_now
ClockNow(c, phys_now) ==
  IF phys_now > c.max_wall_time
  THEN [max_wall_time |-> phys_now, max_logical |-> 0]
  ELSE [c EXCEPT !.max_logical = @ + 1]

\* the Timestamp now() returns, read from the clock it left
ClockStamp(c, node_id) ==
  [wall_time |-> c.max_wall_time, logical |-> c.max_logical, node_id |-> node_id]

(***************************************************************************)
(* Engine (store.hpp): the functions that act on the shard map and the     *)
(* Merkle tree.  st is [map, merkle]; map is a function from the keys      *)
(* present to the byte images of their blobs.                              *)
(***************************************************************************)
\* key + ":meta"
MetaKey(key) == key \o MetaSuffix

MapSet(map, key, blob) ==
  [k \in (DOMAIN map) \cup {key} |-> IF k = key THEN blob ELSE map[k]]

\* Engine::hash_blob of a blob that exists
hash_blob(blob) == fnv1a_64(blob)

\* Engine::get: the buffer of the key, an empty buffer when it is absent
get(map, key) == IF key \in DOMAIN map THEN map[key] ELSE <<>>

apply_put(st, key, json_body) ==
  LET old_h == IF key \in DOMAIN st.map THEN hash_blob(st.map[key]) ELSE Zero64
      blob  == overwrite(json_body)
  IN  [map    |-> MapSet(st.map, key, blob),
       merkle |-> apply_delta(st.merkle, key, Xor64(old_h, hash_blob(blob)))]

\* an absent key gets a fresh Blob first, and old_h is the hash of that blob
apply_patch_int(st, key, field, val) ==
  LET blob0 == IF key \in DOMAIN st.map THEN st.map[key] ELSE BlobNew
      blob  == set_int(blob0, field, val)
  IN  [map    |-> MapSet(st.map, key, blob),
       merkle |-> apply_delta(st.merkle, key,
                              Xor64(hash_blob(blob0), hash_blob(blob)))]

apply_patch_str(st, key, field, val) ==
  LET blob0 == IF key \in DOMAIN st.map THEN st.map[key] ELSE BlobNew
      blob  == set_str(blob0, field, val)
  IN  [map    |-> MapSet(st.map, key, blob),
       merkle |-> apply_delta(st.merkle, key,
                              Xor64(hash_blob(blob0), hash_blob(blob)))]

\* the tombstone: the slot is kept and set to the empty buffer
apply_del(st, key) ==
  LET blob0 == IF key \in DOMAIN st.map THEN st.map[key] ELSE BlobNew
      blob  == overwrite(<<>>)
  IN  [map    |-> MapSet(st.map, key, blob),
       merkle |-> apply_delta(st.merkle, key,
                              Xor64(hash_blob(blob0), hash_blob(blob)))]

\* "{\"ts\":W,\"l\":L,\"n\":N}" with ",\"tombstone\":true" before the brace
\* for a delete
MetaVal(ts, tombstone) ==
  <<123, 34>> \o StrTs \o <<34, 58>> \o to_string(ts.wall_time)
    \o <<44, 34>> \o StrL \o <<34, 58>> \o to_string(ts.logical)
    \o <<44, 34>> \o StrN \o <<34, 58>> \o to_string(ts.node_id)
    \o (IF tombstone
        THEN <<44, 34>> \o StrTombstone \o <<34, 58, 116, 114, 117, 101>>
        ELSE <<>>)
    \o <<125>>

\* std::to_string(wall_time) + ":" + std::to_string(logical) + ":" + ...
TsStr(ts) ==
  to_string(ts.wall_time) \o <<58>> \o to_string(ts.logical) \o <<58>>
    \o to_string(ts.node_id)

\* the local timestamp as get_local_timestamp_internal returns it: {0, 0, 0}
LocalTs_Stub(map, key) == ZeroTs

\* the local timestamp apply_mutation reads from key:meta ("1. Get Local TS")
LocalTs(map, key) ==
  LET buf == get(map, MetaKey(key))
  IN  IF Len(buf) > 0 /\ get_type(buf, StrTs) = "Int64"
      THEN [wall_time |-> get_i64(buf, StrTs),
            logical   |-> get_i64(buf, StrL),
            node_id   |-> get_i64(buf, StrN)]
      ELSE ZeroTs

\* never stale: every mutation is applied
IsStale_Never(map, m) == FALSE

\* stale only when strictly older: m.timestamp < local_ts
IsStale_Strict(map, m) == TsLess(m.timestamp, LocalTs(map, m.key))

\* if (m.timestamp <= local_ts) return;
IsStale(map, m) == TsLeq(m.timestamp, LocalTs(map, m.key))

\* the WAL batches the write paths build
PutBatch(key, json_body, now) ==
  <<[op |-> OpPut, key |-> key, value |-> json_body],
    [op |-> OpPut, key |-> MetaKey(key), value |-> MetaVal(now, FALSE)]>>

PatchIntBatch(key, field, val, now) ==
  <<[op |-> OpPatchI64, key |-> key, value |-> field \o <<58>> \o to_string(val)],
    [op |-> OpPatchStr, key |-> MetaKey(key), value |-> field \o <<58>> \o TsStr(now)]>>

DelBatch(key, now) ==
  <<[op |-> OpDelete, key |-> key, value |-> <<>>],
    [op |-> OpPut, key |-> MetaKey(key), value |-> MetaVal(now, TRUE)]>>

MutationBatch(m) ==
  <<IF m.is_delete
    THEN [op |-> OpDelete, key |-> m.key, value |-> <<>>]
    ELSE [op |-> OpPut, key |-> m.key, value |-> m.value],
    [op |-> OpPut, key |-> MetaKey(m.key),
     value |-> MetaVal(m.timestamp, m.is_delete)]>>

\* the apply_* calls the write paths make after the WAL append, in order
PutCalls(key, json_body, now) ==
  <<[fn |-> "apply_put", key |-> key, a |-> json_body, b |-> 0],
    [fn |-> "apply_put", key |-> MetaKey(key), a |-> MetaVal(now, FALSE), b |-> 0]>>

PatchIntCalls(key, field, val, now) ==
  <<[fn |-> "apply_patch_int", key |-> key, a |-> field, b |-> val],
    [fn |-> "apply_patch_str", key |-> MetaKey(key), a |-> field, b |-> TsStr(now)]>>

DelCalls(key, now) ==
  <<[fn |-> "apply_del", key |-> key, a |-> <<>>, b |-> 0],
    [fn |-> "apply_put", key |-> MetaKey(key), a |-> MetaVal(now, TRUE), b |-> 0]>>

MutationCalls(m) ==
  <<IF m.is_delete
    THEN [fn |-> "apply_del", key |-> m.key, a |-> <<>>, b |-> 0]
    ELSE [fn |-> "apply_put", key |-> m.key, a |-> m.value, b |-> 0],
    [fn |-> "apply_put", key |-> MetaKey(m.key),
     a |-> MetaVal(m.timestamp, m.is_delete), b |-> 0]>>

\* one apply_* call
ApplyCall(st, c) ==
  IF c.fn = "apply_put" THEN apply_put(st, c.key, c.a)
  ELSE IF c.fn = "apply_del" THEN apply_del(st, c.key)
  ELSE IF c.fn = "apply_patch_int" THEN apply_patch_int(st, c.key, c.a, c.b)
  ELSE apply_patch_str(st, c.key, c.a, c.b)

\* std::stoll(s) throws: s does not start with a digit (the payloads of the
\* model carry no sign and no leading blank)
StollThrows(s) == s = <<>> \/ ~IsDigit(s[1])

\* std::stoll(s): the number its leading digits write
Stoll(s) == DecVal(s, 1, DigitsEnd(s, 1))

\* the recovery callback of the Engine constructor on one (op, key, payload):
\* the state it leaves and whether an apply_* call was made and returned
RecoveryCallback(st, op, key, payload) ==
  LET colon == IndexFrom(payload, 1, 58)
      field == SubSeq(payload, 1, colon - 1)
      rest  == SubSeq(payload, colon + 1, Len(payload))
      unset == key \in DOMAIN st.map /\ ~IsObject(st.map[key])
  IN  IF op = OpPut
      THEN [st |-> apply_put(st, key, payload), applied |-> TRUE]
      ELSE IF op = OpPatchI64
      THEN IF colon = 0 \/ StollThrows(rest) \/ unset
           THEN [st |-> st, applied |-> FALSE]
           ELSE [st |-> apply_patch_int(st, key, field, Stoll(rest)),
                 applied |-> TRUE]
      ELSE IF op = OpPatchStr
      THEN IF colon = 0 \/ unset
           THEN [st |-> st, applied |-> FALSE]
           ELSE [st |-> apply_patch_str(st, key, field, rest), applied |-> TRUE]
      ELSE IF op = OpDelete
      THEN [st |-> apply_del(st, key), applied |-> TRUE]
      ELSE [st |-> st, applied |-> FALSE]

RECURSIVE Replay(_, _, _, _)
\* wal_->recover(callback) on the calls i.. of calls: the engine state after
\* them and, for each call, its record, its place in it and its outcome
Replay(st, calls, i, done) ==
  IF i > Len(calls) THEN [st |-> st, done |-> done]
  ELSE LET c == calls[i]
           r == RecoveryCallback(st, c.op, c.key, c.payload)
       IN  Replay(r.st, calls, i + 1,
                  Append(done, [rec |-> c.rec, sub |-> c.sub, count |-> c.count,
                                op |-> c.op, key |-> c.key,
                                applied |-> r.applied]))

\* the value applied before the batch is appended
OpSteps_ApplyFirst == <<"apply", "wal", "apply">>

\* the order of the steps of put, patch_int, del and an accepted
\* apply_mutation: wal_->append_batch, then the two apply_* calls
OpSteps == <<"wal", "apply", "apply">>

\* SyncManager::parse_meta (sync_manager.hpp): timestamp and tombstone flag of
\* the bytes of a meta blob
parse_meta(meta_bytes) ==
  IF meta_bytes = <<>> THEN [ts |-> ZeroTs, is_tombstone |-> FALSE]
  ELSE [ts |-> [wall_time |-> IF get_type(meta_bytes, StrTs) = "Int64"
                              THEN get_field(meta_bytes, StrTs) ELSE 0,
                logical   |-> IF get_type(meta_bytes, StrL) = "Int64"
                              THEN get_field(meta_bytes, StrL) ELSE 0,
                node_id   |-> IF get_type(meta_bytes, StrN) = "Int64"
                              THEN get_field(meta_bytes, StrN) ELSE 0],
        is_tombstone |-> IF get_type(meta_bytes, StrTombstone) = "Bool"
                         THEN get_field(meta_bytes, StrTombstone) ELSE FALSE]

(***************************************************************************)
(* SyncManager (sync_manager.hpp).  A message is its payload bytes         *)
(*   [type:1][sender node id:4][...]                                       *)
(* A handler is an operator from the engine state e = [map, merkle, wal]   *)
(* and the payload to the engine state it leaves, the messages it sends    *)
(* (sends) and the mutation it applied, if any (applied).  The 16 children *)
(* of a Merkle node are the Fanout children of the model.                  *)
(***************************************************************************)
SYNC_INIT == 1
SYNC_REQ_NODE == 2
SYNC_REP_NODE == 3
SYNC_REQ_BUCKET == 4
SYNC_REP_BUCKET == 5
SYNC_GET_VAL == 6
SYNC_PUT_VAL == 7

Send(to, lane, payload) == [to |-> to, lane |-> lane, payload |-> payload]

\* what a handler that returns at once leaves
Quiet(e) == [e |-> e, sends |-> <<>>, applied |-> <<>>]

\* the engine after a get_merkle_root_hash() or get_merkle_node() call
Cleaned(e) == [e EXCEPT !.merkle = recompute_dirty(e.merkle)]

\* send_sync_init: [SYNC_INIT][node_id][root:8]
MsgInit(node, root) == <<SYNC_INIT>> \o Le32(node) \o root

\* send_req_node: [SYNC_REQ_NODE][node_id][level:1][parent:4]
MsgReqNode(node, level, parent) ==
  <<SYNC_REQ_NODE>> \o Le32(node) \o <<level>> \o Le32(parent)

\* send_req_bucket: [SYNC_REQ_BUCKET][node_id][bucket_idx:4]
MsgReqBucket(node, bucket_idx) ==
  <<SYNC_REQ_BUCKET>> \o Le32(node) \o Le32(bucket_idx)

\* send_get_val: [SYNC_GET_VAL][node_id][key]
MsgGetVal(node, key) == <<SYNC_GET_VAL>> \o Le32(node) \o key

\* on_sync_init that answers different roots with an INIT of its own as well
on_sync_init_Echo(node, e, from, buf) ==
  IF Len(buf) < 13 THEN Quiet(e)
  ELSE LET my_root == get_root_hash(e.merkle)
       IN  [e |-> Cleaned(e),
            sends |-> IF my_root = SubSeq(buf, 6, 13) THEN <<>>
                      ELSE <<Send(from, "Control", MsgInit(node, my_root)),
                             Send(from, "Control", MsgReqNode(node, 1, 0))>>,
            applied |-> <<>>]

\* on_sync_init asking for the level 1 nodes whatever the roots are
on_sync_init_AlwaysAsk(node, e, from, buf) ==
  IF Len(buf) < 13 THEN Quiet(e)
  ELSE [e |-> Cleaned(e),
        sends |-> <<Send(from, "Control", MsgReqNode(node, 1, 0))>>,
        applied |-> <<>>]

\* on_sync_init: equal roots end the exchange, different roots ask for the
\* level 1 nodes
on_sync_init(node, e, from, buf) ==
  IF Len(buf) < 13 THEN Quiet(e)
  ELSE LET their_root == SubSeq(buf, 6, 13)
           my_root    == get_root_hash(e.merkle)
       IN  [e |-> Cleaned(e),
            sends |-> IF my_root = their_root THEN <<>>
                      ELSE <<Send(from, "Control", MsgReqNode(node, 1, 0))>>,
            applied |-> <<>>]

RECURSIVE NodeHashes(_, _, _, _)
\* the hashes of the children i.. of parent_idx at level, 8 bytes each
NodeHashes(m, level, parent_idx, i) ==
  IF i >= Fanout THEN <<>>
  ELSE get_node_hash(m, level, parent_idx * Fanout + i)
         \o NodeHashes(m, level, parent_idx, i + 1)

\* on_req_node: [SYNC_REP_NODE][node_id][level][pad:3][parent:4][hashes]
on_req_node(node, e, from, buf) ==
  IF Len(buf) < 10 THEN Quiet(e)
  ELSE LET level      == buf[6]
           parent_idx == Val32(buf, 7)
           rep == <<SYNC_REP_NODE>> \o Le32(node) \o <<level, 0, 0, 0>>
                    \o Le32(parent_idx)
                    \o NodeHashes(e.merkle, level, parent_idx, 0)
       IN  [e |-> Cleaned(e), sends |-> <<Send(from, "Control", rep)>>,
            applied |-> <<>>]

RECURSIVE RepNodeSends(_, _, _, _, _, _)
\* the loop of on_rep_node over the children i..
RepNodeSends(node, m, from, buf, level, i) ==
  IF i >= Fanout THEN <<>>
  ELSE LET parent_idx == Val32(buf, 10)
           their_h    == SubSeq(buf, 14 + i * 8, 21 + i * 8)
           child_idx  == parent_idx * Fanout + i
           my_h       == get_node_hash(m, level, child_idx)
           here == IF my_h = their_h THEN <<>>
                   ELSE IF level = LeafLevel
                   THEN <<Send(from, "Control", MsgReqBucket(node, child_idx))>>
                   ELSE <<Send(from, "Control",
                               MsgReqNode(node, level + 1, child_idx))>>
       IN  here \o RepNodeSends(node, m, from, buf, level, i + 1)

\* on_rep_node that leaves the loop after the first child that differs
on_rep_node_FirstOnly(node, e, from, buf) ==
  IF Len(buf) < 13 THEN Quiet(e)
  ELSE [e |-> Cleaned(e),
        sends |-> SubSeq(RepNodeSends(node, e.merkle, from, buf, buf[6], 0), 1, 1),
        applied |-> <<>>]

on_rep_node(node, e, from, buf) ==
  IF Len(buf) < 13 THEN Quiet(e)
  ELSE [e |-> Cleaned(e),
        sends |-> RepNodeSends(node, e.merkle, from, buf, buf[6], 0),
        applied |-> <<>>]

RECURSIVE SeqOfSet(_)
\* the elements of a finite set of keys in one fixed order
SeqOfSet(S) ==
  IF S = {} THEN <<>>
  ELSE LET x == CHOOSE y \in S : \A z \in S : Len(y) <= Len(z)
       IN  <<x>> \o SeqOfSet(S \ {x})

\* Engine::get_bucket_keys: every key of the bucket, meta keys and tombstones
\* included, with the hash of its blob
get_bucket_keys(map, bucket_idx) ==
  LET ks == SeqOfSet({k \in DOMAIN map : BucketOf(k) = bucket_idx})
  IN  [i \in 1..Len(ks) |-> [key |-> ks[i], hash |-> hash_blob(map[ks[i]])]]

RECURSIVE BucketEntries(_, _)
\* [KeyLen:2][Key][Hash:8] for every key that does not end in ":meta"
BucketEntries(keys, i) ==
  IF i > Len(keys) THEN <<>>
  ELSE (IF EndsWith(keys[i].key, MetaSuffix) THEN <<>>
        ELSE Le16(Len(keys[i].key)) \o keys[i].key \o keys[i].hash)
         \o BucketEntries(keys, i + 1)

\* on_req_bucket: [SYNC_REP_BUCKET][node_id][bucket:4][count:4][entries]
on_req_bucket(node, e, from, buf) ==
  IF Len(buf) < 9 THEN Quiet(e)
  ELSE LET bucket_idx == Val32(buf, 6)
           keys == get_bucket_keys(e.map, bucket_idx)
           pay  == <<SYNC_REP_BUCKET>> \o Le32(node) \o Le32(bucket_idx)
                     \o Le32(Len(keys)) \o BucketEntries(keys, 1)
       IN  [e |-> e, sends |-> <<Send(from, "Heavy", pay)>>, applied |-> <<>>]

RECURSIVE RepBucketSends(_, _, _, _, _, _, _)
\* the loop of on_rep_bucket: entry i of count at byte pos of buf (the
\* position after the last byte read)
RepBucketSends(node, map, from, buf, pos, i, count) ==
  IF i >= count \/ pos + 10 > Len(buf) THEN <<>>
  ELSE LET klen == Val16(buf, pos + 1)
       IN  IF pos + 2 + klen + 8 > Len(buf) THEN <<>>
           ELSE LET key     == SubSeq(buf, pos + 3, pos + 2 + klen)
                    their_h == SubSeq(buf, pos + 3 + klen, pos + 10 + klen)
                    local   == get(map, key)
                    my_h    == IF Len(local) > 0 THEN fnv1a_64(local) ELSE Zero64
                    here == IF my_h # their_h
                            THEN <<Send(from, "Heavy", MsgGetVal(node, key))>>
                            ELSE <<>>
                IN  here \o RepBucketSends(node, map, from, buf,
                                           pos + 2 + klen + 8, i + 1, count)

on_rep_bucket(node, e, from, buf) ==
  IF Len(buf) < 13 THEN Quiet(e)
  ELSE [e |-> e,
        sends |-> RepBucketSends(node, e.map, from, buf, 13, 0, Val32(buf, 10)),
        applied |-> <<>>]

\* on_get_val answering for live keys only: nothing is sent for a key whose
\* value is empty
on_get_val_LiveOnly(node, e, from, buf) ==
  LET key  == SubSeq(buf, 6, Len(buf))
      meta == get(e.map, MetaKey(key))
      val  == get(e.map, key)
      pay  == <<SYNC_PUT_VAL>> \o Le32(node) \o Le16(Len(key) % 65536) \o key
                \o Le16(Len(meta) % 65536) \o meta \o val
  IN  IF Len(buf) < 5 \/ Len(val) = 0 THEN Quiet(e)
      ELSE [e |-> e, sends |-> <<Send(from, "Heavy", pay)>>, applied |-> <<>>]

\* on_get_val: [SYNC_PUT_VAL][node_id][klen:2][key][mlen:2][meta][value]
on_get_val(node, e, from, buf) ==
  LET key  == SubSeq(buf, 6, Len(buf))
      meta == get(e.map, MetaKey(key))
      val  == get(e.map, key)
      pay  == <<SYNC_PUT_VAL>> \o Le32(node) \o Le16(Len(key) % 65536) \o key
                \o Le16(Len(meta) % 65536) \o meta \o val
  IN  IF Len(buf) < 5 \/ Len(meta) = 0 THEN Quiet(e)
      ELSE [e |-> e, sends |-> <<Send(from, "Heavy", pay)>>, applied |-> <<>>]

\* Engine::apply_mutation as one call on e: a stale mutation leaves e as it
\* is, any other is appended to the WAL as a batch and then applied
apply_mutation(e, m) ==
  IF IsStale(e.map, m) THEN e
  ELSE LET calls == MutationCalls(m)
           st == ApplyCall(ApplyCall([map |-> e.map, merkle |-> e.merkle],
                                     calls[1]), calls[2])
       IN  [map |-> st.map, merkle |-> st.merkle,
            wal |-> append_batch(e.wal, MutationBatch(m), TRUE)]

\* on_put_val: the Mutation is built from the key, the parsed meta and the
\* value bytes and handed to Engine::apply_mutation
on_put_val(node, e, from, buf) ==
  IF 7 > Len(buf) THEN Quiet(e)
  ELSE LET klen == Val16(buf, 6)
           pos  == 7 + klen
       IN  IF pos > Len(buf) \/ pos + 2 > Len(buf) THEN Quiet(e)
           ELSE LET mlen == Val16(buf, pos + 1)
                    end  == pos + 2 + mlen
                IN  IF end > Len(buf) THEN Quiet(e)
                    ELSE LET key    == SubSeq(buf, 8, pos)
                             meta   == SubSeq(buf, pos + 3, end)
                             val    == SubSeq(buf, end + 1, Len(buf))
                             parsed == parse_meta(meta)
                             m == [key |-> key, value |-> val,
                                   is_delete |-> parsed.is_tombstone,
                                   timestamp |-> parsed.ts]
                         IN  [e |-> apply_mutation(e, m), sends |-> <<>>,
                              applied |-> <<m>>]

(***************************************************************************)
(* HybridLogicalClock and ThreadLocalClock with the logical counter at its *)
(* width (clock.hpp, clock.cpp).  A uint32_t is the pair <<hi, lo>> of its *)
(* two 16-bit halves, so that its arithmetic wraps at 2^32 as in the code. *)
(***************************************************************************)
Half == 65536

\* the uint32_t of value n, for n < 2^31
U32(n) == <<n \div Half, n % Half>>

\* UINT32_MAX
Max32 == <<Half - 1, Half - 1>>

\* x + n in uint32_t arithmetic, for 0 <= n < 2^16
Add32(x, n) == <<(x[1] + ((x[2] + n) \div Half)) % Half, (x[2] + n) % Half>>

\* a < b on uint32_t
Less32(a, b) == a[1] < b[1] \/ (a[1] = b[1] /\ a[2] < b[2])

\* std::max on uint32_t
Max32Of(a, b) == IF Less32(a, b) THEN b ELSE a

\* Timestamp::operator< on timestamps whose logical is a uint32_t
StampLess(a, b) ==
  IF a.wall_time # b.wall_time THEN a.wall_time < b.wall_time
  ELSE IF a.logical # b.logical THEN Less32(a.logical, b.logical)
  ELSE a.node_id < b.node_id

\* const int BATCH_SIZE of ThreadLocalClock::now (50 in the source)
BATCH_SIZE == 2

\* HybridLogicalClock(node_id): max_wall_time_{0}, max_logical_{0}
HlcInit == [max_wall_time |-> 0, max_logical |-> U32(0)]

\* HybridLogicalClock::now with get_physical_time() reading phys_now: the
\* clock it leaves; the Timestamp returned is Stamp of that clock
HlcNow(c, phys_now) ==
  IF phys_now > c.max_wall_time
  THEN [max_wall_time |-> phys_now, max_logical |-> U32(0)]
  ELSE [c EXCEPT !.max_logical = Add32(@, 1)]

\* {max_wall_time_, max_logical_, node_id_}
Stamp(c, node) ==
  [wall_time |-> c.max_wall_time, logical |-> c.max_logical, node_id |-> node]

\* std::max({l_old, l_msg, phys_now})
Max3(a, b, c) ==
  IF a >= b /\ a >= c THEN a ELSE IF b >= c THEN b ELSE c

\* HybridLogicalClock::update(incoming) with get_physical_time() reading
\* phys_now: the clock it leaves
update(c, incoming, phys_now) ==
  [max_wall_time |-> Max3(c.max_wall_time, incoming.wall_time, phys_now),
   max_logical |->
     IF Max3(c.max_wall_time, incoming.wall_time, phys_now) = c.max_wall_time
        /\ Max3(c.max_wall_time, incoming.wall_time, phys_now) = incoming.wall_time
     THEN Add32(Max32Of(c.max_logical, incoming.logical), 1)
     ELSE IF Max3(c.max_wall_time, incoming.wall_time, phys_now) = c.max_wall_time
     THEN Add32(c.max_logical, 1)
     ELSE IF Max3(c.max_wall_time, incoming.wall_time, phys_now) = incoming.wall_time
     THEN Add32(incoming.logical, 1)
     ELSE U32(0)]

\* the clock reserve_logical works on once it has advanced to for_phys_time
Advanced(c, for_phys_time) ==
  IF for_phys_time > c.max_wall_time
  THEN [max_wall_time |-> for_phys_time, max_logical |-> U32(0)]
  ELSE c

\* reserve_logical without max_logical_ += count
reserve_logical_NoAdvance(c, for_phys_time, count, phys) ==
  IF for_phys_time < (IF phys > c.max_wall_time THEN phys ELSE c.max_wall_time)
  THEN [ok |-> FALSE, start |-> U32(0), c |-> c]
  ELSE [ok |-> TRUE,
        start |-> Add32(Advanced(c, for_phys_time).max_logical, 1),
        c |-> Advanced(c, for_phys_time)]

\* HybridLogicalClock::reserve_logical(for_phys_time, count) with
\* get_physical_time() reading phys: ok is FALSE for the return value -1,
\* otherwise start is the value returned; c is the clock it leaves
reserve_logical(c, for_phys_time, count, phys) ==
  IF for_phys_time < (IF phys > c.max_wall_time THEN phys ELSE c.max_wall_time)
  THEN [ok |-> FALSE, start |-> U32(0), c |-> c]
  ELSE [ok |-> TRUE,
        start |-> Add32(Advanced(c, for_phys_time).max_logical, 1),
        c |-> [Advanced(c, for_phys_time) EXCEPT !.max_logical = Add32(@, count)]]

\* ThreadLocalClock(global): cached_phys_time_{0}, cached_logical_next_{0},
\* cached_logical_end_{0}; pc is where the thread stands in now(), phys_now
\* the local variable of that name
LocalInit ==
  [cached_phys_time |-> 0, cached_logical_next |-> U32(0),
   cached_logical_end |-> U32(0), pc |-> "idle", phys_now |-> 0]

\* ThreadLocalClock::now took a timestamp from its batch
CacheHit(l, phys_now) ==
  /\ phys_now = l.cached_phys_time
  /\ Less32(l.cached_logical_next, l.cached_logical_end)

\* ThreadLocalClock::now, step 1 without a cache hit: the batch is reset
\* when the time moved forward, and the refill loop is entered
CacheMiss(l, phys_now) ==
  IF phys_now > l.cached_phys_time
  THEN [cached_phys_time |-> phys_now, cached_logical_next |-> U32(0),
        cached_logical_end |-> U32(0), pc |-> "reserve", phys_now |-> phys_now]
  ELSE [l EXCEPT !.pc = "reserve", !.phys_now = phys_now]

\* ThreadLocalClock::now, the reservation succeeded with start_logical
Refilled(l, start_logical) ==
  [cached_phys_time |-> l.phys_now,
   cached_logical_next |-> Add32(start_logical, 1),
   cached_logical_end |-> Add32(start_logical, BATCH_SIZE),
   pc |-> "idle", phys_now |-> l.phys_now]

(***************************************************************************)
(* Mesh (mesh.hpp, mesh.cpp): the peer table, the simulated latency and    *)
(* the one Connection of a peer with its strand and its outbox.            *)
(***************************************************************************)
\* enum class Lane as the uint32_t of the frame header
LaneCode(lane) ==
  CASE lane = "Control" -> 0
    [] lane = "Express" -> 1
    [] lane = "Standard" -> 2
    [] lane = "Heavy" -> 3

\* Mesh::send: Frame: [Lane:4][Size:4][Body...]
Frame(lane, payload) == Le32(LaneCode(lane)) \o Le32(Len(payload)) \o payload

\* Mesh::send finding every peer id in peers_
Known_Always(peers, peer_id) == TRUE

\* Mesh::send: peers_.find(peer_id) != peers_.end()
Known(peers, peer_id) == peer_id \in peers

(***************************************************************************)
(* ReplicationLog (replication_log.hpp): queue is the std::deque, oldest   *)
(* first.  max_size is at least 1: with 0 append calls pop_front on an     *)
(* empty deque.                                                            *)
(***************************************************************************)
Min(a, b) == IF a <= b THEN a ELSE b

\* ReplicationLog::append that keeps the oldest entry of a full queue
ReplAppend_NoDrop(queue, m, max_size) == Append(queue, m)

\* ReplicationLog::append: pop_front if the queue is full, then push_back
ReplAppend(queue, m, max_size) ==
  IF Len(queue) >= max_size THEN Append(Tail(queue), m) ELSE Append(queue, m)

\* ReplicationLog::pop_batch: the batch it returns and the queue it leaves
pop_batch(queue, limit) ==
  [batch |-> SubSeq(queue, 1, Min(limit, Len(queue))),
   queue |-> SubSeq(queue, Min(limit, Len(queue)) + 1, Len(queue))]

(***************************************************************************)
(* State.                                                                  *)
(***************************************************************************)
VARIABLES
  merkle,     \* merkle[n]: the MerkleTree of engine n
  map,        \* map[n]: the shard maps of engine n, key -> blob image
  wal,        \* wal[n]: the bytes of the WAL file of engine n
  clock,      \* clock[n]: the HybridLogicalClock of engine n
  node_id,    \* node_id[n]: the node id engine n was constructed with
  thr,        \* thr[n][t]: the call thread t is running on engine n
  log,        \* log[n]: the calls that returned, in order (history)
  handed,     \* handed[n]: every BatchOp passed to append_batch (history)
  walFails,   \* WAL writes that failed so far
  mMark,      \* SpecMerkle: what the marked get_root_hash() call returned
  mCalls,     \* SpecMerkle: the apply_delta calls made since the mark
  wOps,       \* SpecWal: the operations appended, in order (history)
  wCut,       \* SpecWal: the file was cut
  wSeen,      \* SpecWal: the callback calls of the recover that ran
  rLog,       \* rLog[n]: the callback calls of the recovery engine n was
              \* constructed by, each with whether it was applied (history)
  net,        \* net[n][lane]: the sync messages on their way to node n on
              \* that lane of the mesh, oldest first
  inbox,      \* inbox[n]: the message the mesh handed to node n's on_message
              \* callback and handle_message has not run on yet, if any
  gclock,     \* SpecClock: the HybridLogicalClock the threads share
  lclock,     \* SpecClock: lclock[t]: the ThreadLocalClock of thread t and
              \* where the thread stands in its now()
  clog,       \* SpecClock: the clock calls that returned, in order (history)
  msh,        \* SpecMesh: a Mesh, its peer table and its connection
  mtime,      \* SpecMesh: the reading of the steady clock of the timers
  mlog,       \* SpecMesh: the send calls that returned, the frames written to
              \* the socket and the on_message calls of the listener (history)
  rq,         \* SpecRepl: a ReplicationLog: its queue_ and its max_size_
  rhist       \* SpecRepl: the append and pop_batch calls, in order (history)

vEngine == <<merkle, map, wal, clock, thr, log, handed, walFails>>
vMerkle == <<mMark, mCalls>>
vWal == <<wOps, wCut, wSeen>>
vClock == <<gclock, lclock, clog>>
\* the variables of the specifications of one unit on its own
vMesh == <<msh, mtime, mlog>>
vRepl == <<rq, rhist>>
vUnits == <<vClock, vMesh, vRepl>>
\* the variables of the Engine and of the specifications around it
vCore == <<merkle, map, wal, clock, node_id, thr, log, handed, walFails,
           mMark, mCalls, wOps, wCut, wSeen, rLog, net, inbox>>
\* the variables the clock and the mesh on their own leave alone
vBase == <<vCore, vRepl>>
\* the variables no Engine call touches
vAux == <<mMark, mCalls, wOps, wCut, wSeen, rLog, net, inbox, vUnits>>
vars == <<merkle, map, wal, clock, node_id, thr, log, handed, walFails,
          mMark, mCalls, wOps, wCut, wSeen, rLog, net, inbox, vUnits>>

Nodes == 1..2
Threads == 1..2
\* the lanes of the mesh the sync messages travel on (enum class Lane)
Lanes == {"Control", "Heavy"}

EmptyMap == [k \in {} |-> <<>>]

NoCall ==
  [kind |-> "none", key |-> <<>>, value |-> <<>>, field |-> <<>>, val |-> 0,
   is_delete |-> FALSE, timestamp |-> ZeroTs]

\* a thread that is in no call; out and snap are those of its last call
IdleThread ==
  [pc |-> "idle", step |-> 1, call |-> NoCall, batch |-> <<>>, live |-> <<>>,
   walOk |-> TRUE, out |-> "none", localTs |-> ZeroTs,
   snap |-> [map |-> EmptyMap, merkle |-> MerkleInit, wal |-> <<>>]]

\* Engine(wal_path, node_id) on an empty WAL file
InitEngines(ids) ==
  /\ merkle = [n \in Nodes |-> MerkleInit]
  /\ map = [n \in Nodes |-> EmptyMap]
  /\ wal = [n \in Nodes |-> <<>>]
  /\ clock = [n \in Nodes |-> ClockInit]
  /\ node_id = ids
  /\ thr = [n \in Nodes |-> [t \in Threads |-> IdleThread]]
  /\ log = [n \in Nodes |-> <<>>]
  /\ handed = [n \in Nodes |-> {}]
  /\ walFails = 0

InitMerkleVars ==
  /\ mMark = <<>>
  /\ mCalls = <<>>

InitWalVars ==
  /\ wOps = <<>>
  /\ wCut = FALSE
  /\ wSeen = <<>>

\* one HybridLogicalClock and a ThreadLocalClock on it in every thread
InitClockVars ==
  /\ gclock = HlcInit
  /\ lclock = [t \in Threads |-> LocalInit]
  /\ clog = <<>>

\* a thread that is in no Mesh::send call
NoSend == [pc |-> "idle", peer |-> 0, lane |-> "Control", payload |-> <<>>, after |-> 0]

\* Mesh(io_context, my_id, port): no peer, no latency; no connection yet
InitMeshVars ==
  /\ msh = [peers |-> {}, latency |-> 0, sock |-> "none", hs |-> "none",
            timers |-> <<>>,
            strand |-> <<>>, outbox |-> <<>>, writes |-> 0, failed |-> FALSE,
            th |-> [t \in Threads |-> NoSend]]
  /\ mtime = 0
  /\ mlog = [sends |-> <<>>, wire |-> <<>>, delivered |-> <<>>]

\* ReplicationLog(max_size): an empty queue
InitReplVars ==
  /\ rq = [queue |-> <<>>, max_size |-> 1]
  /\ rhist = <<>>

\* the variables of the other specifications, at rest
InitAux ==
  /\ InitMerkleVars
  /\ InitWalVars
  /\ rLog = [n \in Nodes |-> <<>>]
  /\ net = [n \in Nodes |-> [lane \in Lanes |-> <<>>]]
  /\ inbox = [n \in Nodes |-> <<>>]
  /\ InitClockVars
  /\ InitMeshVars
  /\ InitReplVars

St(n) == [map |-> map[n], merkle |-> merkle[n]]

\* what the caller could observe of engine n when the call started
Snap(n) == [map |-> map[n], merkle |-> merkle[n], wal |-> wal[n]]

\* the operation has run its last step: it returns
Returned(th) == th.step > Len(OpSteps)

LogEntry(th) ==
  [call |-> th.call, out |-> th.out, walOk |-> th.walOk, localTs |-> th.localTs]

\* the thread enters a call of a write path: the batch and the apply_* calls
\* are built, nothing is written yet
StartOp(n, call, batch, live) ==
  [pc |-> "run", step |-> 1, call |-> call, batch |-> batch, live |-> live,
   walOk |-> TRUE, out |-> "none", localTs |-> LocalTs(map[n], call.key),
   snap |-> Snap(n)]

\* the thread after one more step of OpSteps; the call returns after the last
AfterStep(th, ok) ==
  LET th1 == [th EXCEPT !.step = @ + 1, !.walOk = @ /\ ok]
  IN  IF Returned(th1) THEN [th1 EXCEPT !.pc = "idle", !.out = "ok"] ELSE th1

CanStart(n, t) ==
  /\ thr[n][t].pc = "idle"
  /\ Len(log[n]) + Cardinality({u \in Threads : thr[n][u].pc = "run"}) < MaxOps

\* Engine::put up to wal_->append_batch
Put(n, t, key, json_body, phys) ==
  /\ CanStart(n, t)
  /\ clock' = [clock EXCEPT ![n] = ClockNow(@, phys)]
  /\ LET now == ClockStamp(clock'[n], node_id[n])
         call == [NoCall EXCEPT !.kind = "put", !.key = key,
                                !.value = json_body, !.timestamp = now]
     IN  thr' = [thr EXCEPT ![n][t] =
                   StartOp(n, call, PutBatch(key, json_body, now),
                           PutCalls(key, json_body, now))]
  /\ UNCHANGED <<merkle, map, wal, node_id, log, handed, walFails, vAux>>

\* Engine::patch_int up to wal_->append_batch
PatchInt(n, t, key, field, val, phys) ==
  /\ CanStart(n, t)
  /\ key \in DOMAIN map[n] => IsObject(map[n][key])
  /\ MetaKey(key) \in DOMAIN map[n] => IsObject(map[n][MetaKey(key)])
  /\ clock' = [clock EXCEPT ![n] = ClockNow(@, phys)]
  /\ LET now == ClockStamp(clock'[n], node_id[n])
         call == [NoCall EXCEPT !.kind = "patch_int", !.key = key,
                                !.field = field, !.val = val,
                                !.timestamp = now]
     IN  thr' = [thr EXCEPT ![n][t] =
                   StartOp(n, call, PatchIntBatch(key, field, val, now),
                           PatchIntCalls(key, field, val, now))]
  /\ UNCHANGED <<merkle, map, wal, node_id, log, handed, walFails, vAux>>

\* Engine::del up to wal_->append_batch
Del(n, t, key, phys) ==
  /\ CanStart(n, t)
  /\ clock' = [clock EXCEPT ![n] = ClockNow(@, phys)]
  /\ LET now == ClockStamp(clock'[n], node_id[n])
         call == [NoCall EXCEPT !.kind = "del", !.key = key,
                                !.is_delete = TRUE, !.timestamp = now]
     IN  thr' = [thr EXCEPT ![n][t] =
                   StartOp(n, call, DelBatch(key, now), DelCalls(key, now))]
  /\ UNCHANGED <<merkle, map, wal, node_id, log, handed, walFails, vAux>>

MutationCall(m) ==
  [NoCall EXCEPT !.kind = "apply_mutation", !.key = m.key, !.value = m.value,
                 !.is_delete = m.is_delete, !.timestamp = m.timestamp]

\* Engine::apply_mutation up to wal_->append_batch: the local timestamp is
\* read and a stale mutation returns at once
ApplyMutation(n, t, m) ==
  /\ CanStart(n, t)
  /\ IF IsStale(map[n], m)
     THEN LET th == [StartOp(n, MutationCall(m), <<>>, <<>>)
                       EXCEPT !.pc = "idle", !.out = "rejected"]
          IN  /\ thr' = [thr EXCEPT ![n][t] = th]
              /\ log' = [log EXCEPT ![n] = Append(@, LogEntry(th))]
     ELSE /\ thr' = [thr EXCEPT ![n][t] =
                       StartOp(n, MutationCall(m), MutationBatch(m),
                               MutationCalls(m))]
          /\ UNCHANGED log
  /\ UNCHANGED <<merkle, map, wal, clock, node_id, handed, walFails, vAux>>

\* wal_->append_batch(batch); the write of the record succeeds or fails
StepWal(n, t, ok) ==
  LET th == thr[n][t]
      th1 == AfterStep(th, ok)
  IN  /\ th.pc = "run"
      /\ OpSteps[th.step] = "wal"
      /\ ok \/ walFails < MaxWalFails
      /\ wal' = [wal EXCEPT ![n] = append_batch(@, th.batch, ok)]
      /\ handed' = [handed EXCEPT ![n] = @ \cup {th.batch[i] : i \in 1..Len(th.batch)}]
      /\ walFails' = IF ok THEN walFails ELSE walFails + 1
      /\ thr' = [thr EXCEPT ![n][t] = th1]
      /\ log' = IF Returned(th1) THEN [log EXCEPT ![n] = Append(@, LogEntry(th1))]
                ELSE log
      /\ UNCHANGED <<merkle, map, clock, node_id, vAux>>

\* the next apply_* call of the write path
StepApply(n, t) ==
  LET th == thr[n][t]
      th1 == AfterStep(th, TRUE)
      idx == Cardinality({i \in 1..th.step : OpSteps[i] = "apply"})
      st == ApplyCall(St(n), th.live[idx])
  IN  /\ th.pc = "run"
      /\ OpSteps[th.step] = "apply"
      /\ map' = [map EXCEPT ![n] = st.map]
      /\ merkle' = [merkle EXCEPT ![n] = st.merkle]
      /\ thr' = [thr EXCEPT ![n][t] = th1]
      /\ log' = IF Returned(th1) THEN [log EXCEPT ![n] = Append(@, LogEntry(th1))]
                ELSE log
      /\ UNCHANGED <<wal, clock, node_id, handed, walFails, vAux>>

(***************************************************************************)
(* SpecEngine: one Engine (node 1) called by one thread: put, patch_int,   *)
(* del and apply_mutation, each running its steps in the order of the      *)
(* code, with a WAL write that may fail.                                   *)
(***************************************************************************)
\* "a"
EKeys == {<<97>>}
\* {"v":1}
EBodies == {<<123, 34, 118, 34, 58, 49, 125>>}
\* {"v":2}
EValues == {<<123, 34, 118, 34, 58, 50, 125>>}
\* "f"
EFields == {<<102>>}
EVals == {5}

Stamps ==
  {[wall_time |-> w, logical |-> l, node_id |-> i] :
     w \in 1..MaxWall, l \in 0..MaxLogical, i \in Nodes}

\* the Mutations a peer can send: a value with its timestamp, or a delete
Mutations(keys, values) ==
  {[key |-> k, value |-> v, is_delete |-> FALSE, timestamp |-> ts] :
     k \in keys, v \in values, ts \in Stamps}
  \cup {[key |-> k, value |-> <<>>, is_delete |-> TRUE, timestamp |-> ts] :
     k \in keys, ts \in Stamps}

InitEngine ==
  /\ InitEngines([n \in Nodes |-> n])
  /\ InitAux

NextEngine ==
  \/ \E k \in EKeys, b \in EBodies, p \in 1..MaxWall : Put(1, 1, k, b, p)
  \/ \E k \in EKeys, f \in EFields, v \in EVals, p \in 1..MaxWall :
       PatchInt(1, 1, k, f, v, p)
  \/ \E k \in EKeys, p \in 1..MaxWall : Del(1, 1, k, p)
  \/ \E m \in Mutations(EKeys, EValues) : ApplyMutation(1, 1, m)
  \/ \E ok \in BOOLEAN : StepWal(1, 1, ok)
  \/ StepApply(1, 1)

SpecEngine == InitEngine /\ [][NextEngine]_vars

\* what a caller reads back of a key: its value and its parsed meta
Read(m, key) ==
  [value |-> get(m, key), meta |-> parse_meta(get(m, MetaKey(key)))]

\* what a mutation writes: its value as the blob keeps it, its timestamp and
\* its tombstone flag
Written(c) ==
  [value |-> IF c.is_delete THEN <<>> ELSE overwrite(c.value),
   meta  |-> [ts |-> c.timestamp, is_tombstone |-> c.is_delete]]

\* the last two calls that returned were apply_mutation calls to one key with
\* different timestamps, both newer than what the key held before the first
TwoMutations ==
  LET lg == log[1]
      n  == Len(lg)
  IN  /\ thr[1][1].pc = "idle"
      /\ n >= 2
      /\ lg[n - 1].call.kind = "apply_mutation"
      /\ lg[n].call.kind = "apply_mutation"
      /\ lg[n - 1].call.key = lg[n].call.key
      /\ lg[n - 1].call.timestamp # lg[n].call.timestamp
      /\ TsLess(lg[n - 1].localTs, lg[n - 1].call.timestamp)
      /\ TsLess(lg[n - 1].localTs, lg[n].call.timestamp)

StaleCall ==
  LET th == thr[1][1]
  IN  /\ th.call.kind = "apply_mutation"
      /\ TsLeq(th.call.timestamp,
               parse_meta(get(th.snap.map, MetaKey(th.call.key))).ts)

\* C3: a stale mutation is rejected without any effect. apply_mutation(m)
\* with m.timestamp <= the timestamp in the local meta of m.key returns at
\* once: no WAL record is appended, the map entries of key and key:meta are
\* unchanged and the Merkle root is unchanged.
C3_StaleRejected ==
  StaleCall =>
    LET th == thr[1][1]
        k  == th.call.key
    IN  /\ th.pc = "idle"
        /\ th.out = "rejected"
        /\ wal[1] = th.snap.wal
        /\ map[1] = th.snap.map
        /\ get_root_hash(merkle[1]) = get_root_hash(th.snap.merkle)

\* a mutation carrying exactly the stored timestamp was rejected
C3_Witness ==
  /\ StaleCall
  /\ thr[1][1].out = "rejected"
  /\ thr[1][1].call.timestamp =
       parse_meta(get(map[1], MetaKey(thr[1][1].call.key))).ts

\* the last call of the thread was apply_mutation(m) on a key whose meta was a
\* tombstone with a timestamp greater than m.timestamp
BelowTombstone ==
  LET th == thr[1][1]
      pm == parse_meta(get(th.snap.map, MetaKey(th.call.key)))
  IN  /\ th.call.kind = "apply_mutation"
      /\ pm.is_tombstone
      /\ TsLess(th.call.timestamp, pm.ts)

\* C4: tombstones are sticky. Once key:meta is a tombstone with timestamp T,
\* an apply_mutation with a timestamp less than T leaves get(key) empty and
\* key:meta the same tombstone with the same T, at every step of the call; so
\* does any sequence of such calls.
C4_TombstoneSticky ==
  BelowTombstone =>
    LET th == thr[1][1]
        k  == th.call.key
    IN  /\ get(map[1], k) = <<>>
        /\ Read(map[1], k).meta = Read(th.snap.map, k).meta

\* an older value was sent to a deleted key, after an older mutation already
\* was
C4_Witness ==
  /\ BelowTombstone
  /\ ~thr[1][1].call.is_delete
  /\ thr[1][1].pc = "idle"
  /\ Len(log[1]) = 3
  /\ log[1][2].call.kind = "apply_mutation"
  /\ log[1][2].out = "rejected"

\* the field and the text after the first ':' of a PATCH payload
PatchField(payload) == SubSeq(payload, 1, IndexFrom(payload, 1, 58) - 1)
PatchText(payload) == SubSeq(payload, IndexFrom(payload, 1, 58) + 1, Len(payload))

\* the blob is what BatchOp b leaves of its key
Produces(b, blob) ==
  \/ b.op = OpPut /\ blob = overwrite(b.value)
  \/ b.op = OpDelete /\ blob = <<>>
  \/ /\ b.op = OpPatchI64
     /\ get_type(blob, PatchField(b.value)) = "Int64"
     /\ to_string(get_field(blob, PatchField(b.value))) = PatchText(b.value)
  \/ /\ b.op = OpPatchStr
     /\ get_type(blob, PatchField(b.value)) = "String"
     /\ get_field(blob, PatchField(b.value)) = PatchText(b.value)

\* C5: write-ahead ordering. In every reachable state every entry of the
\* shard map, value or meta, is what some BatchOp already passed to
\* wal_->append_batch leaves of its key: the batch is handed to the WAL before
\* either map entry is modified.
C5_WriteAhead ==
  \A k \in DOMAIN map[1] :
    \E b \in handed[1] : b.key = k /\ Produces(b, map[1][k])

\* between the two apply_* calls of a put: the value is readable, its meta is
\* not yet
C5_Witness ==
  /\ thr[1][1].pc = "run"
  /\ thr[1][1].call.kind = "put"
  /\ thr[1][1].step = 3
  /\ thr[1][1].call.key \in DOMAIN map[1]
  /\ MetaKey(thr[1][1].call.key) \notin DOMAIN map[1]

\* C8: a WAL write failure during put, patch_int, del or apply_mutation is
\* reported to the caller, and the shard map and the Merkle tree are left as
\* they were before the call.
C8_WalFailureReported ==
  LET th == thr[1][1]
  IN  (th.pc = "idle" /\ th.call.kind # "none" /\ ~th.walOk)
        => /\ th.out = "error"
           /\ map[1] = th.snap.map
           /\ merkle[1] = th.snap.merkle

\* the last call of the thread has returned and was not rejected as stale:
\* it produced the current value of its key
Completed ==
  /\ thr[1][1].pc = "idle"
  /\ thr[1][1].call.kind # "none"
  /\ thr[1][1].out # "rejected"

\* C15: meta consistency. After a completed put, patch_int, del or accepted
\* apply_mutation on a key k, the entry k:meta exists and its ts, l and n
\* fields are the timestamp of that operation.
C15_MetaConsistent ==
  Completed =>
    /\ MetaKey(thr[1][1].call.key) \in DOMAIN map[1]
    /\ parse_meta(get(map[1], MetaKey(thr[1][1].call.key))).ts
         = thr[1][1].call.timestamp

\* C22: Engine::get_bucket_keys(bucket_idx) returns exactly the user keys
\* whose Merkle leaf index is bucket_idx, each with the hash of its current
\* blob (tombstones included), and no key that ends in the reserved suffix
\* :meta.
C22_BucketKeys ==
  \A b \in 0..(LayerSize(LeafLevel) - 1) :
    \E r \in {get_bucket_keys(map[1], b)} :
      /\ {r[i].key : i \in 1..Len(r)} =
           {k \in DOMAIN map[1] : BucketOf(k) = b /\ ~EndsWith(k, MetaSuffix)}
      /\ \A i \in 1..Len(r) : r[i].hash = hash_blob(map[1][r[i].key])
      /\ \A i \in 1..Len(r), j \in 1..Len(r) : r[i].key = r[j].key => i = j

LocalKinds == {"put", "patch_int", "del"}

\* C24: after Engine::apply_mutation(m) has accepted a remote mutation m,
\* every later local put, patch_int or del on that Engine is stamped with a
\* timestamp strictly greater than m.timestamp.
C24_LocalAfterRemote ==
  \A i \in 1..Len(log[1]), j \in 1..Len(log[1]) :
    (/\ i < j
     /\ log[1][i].call.kind = "apply_mutation"
     /\ log[1][i].out = "ok"
     /\ log[1][j].call.kind \in LocalKinds)
      => TsLess(log[1][i].call.timestamp, log[1][j].call.timestamp)

\* the timestamp recorded in key:meta of engine 1
MetaTs(m, key) == parse_meta(get(m, MetaKey(key))).ts

\* C25: for every key, the timestamp recorded in key:meta never decreases
\* over any sequence of put, del and apply_mutation calls on one Engine.
C25_MetaNeverDecreases ==
  [][\A k \in EKeys : ~TsLess(MetaTs(map'[1], k), MetaTs(map[1], k))]_vars

\* the XOR of the blob hashes of the entries of map m with a key in S
RECURSIVE LeafXor(_, _)
LeafXor(m, S) ==
  IF S = {} THEN Zero64
  ELSE LET k == CHOOSE x \in S : TRUE
       IN  Xor64(hash_blob(m[k]), LeafXor(m, S \ {k}))

\* C27: Merkle leaf invariant. After any sequence of completed put,
\* patch_int, del and apply_mutation calls (also a patch or a delete on a key
\* that was absent), each Merkle leaf equals the XOR of the blob hashes of
\* all map entries whose key maps to that leaf.
C27_LeafInvariant ==
  thr[1][1].pc = "idle" =>
    \A b \in 0..(LayerSize(LeafLevel) - 1) :
      merkle[1].layers[LeafLevel][b] =
        LeafXor(map[1], {k \in DOMAIN map[1] : BucketOf(k) = b})

(***************************************************************************)
(* SpecConc: one Engine (node 1) called by two threads at once: put, del   *)
(* and apply_mutation on one key.  A call takes the lock of a shard inside *)
(* each apply_* call and the mutex of the WAL inside append_batch, and     *)
(* holds nothing between them, so the steps of the two calls interleave.   *)
(* Every WAL write succeeds.                                               *)
(***************************************************************************)
MaxConcOps == 2

\* one more call may start
ConcTurn ==
  Len(log[1]) + Cardinality({u \in Threads : thr[1][u].pc = "run"}) < MaxConcOps

NextConc ==
  \/ \E t \in Threads, k \in EKeys, b \in EBodies, p \in 1..MaxWall :
       ConcTurn /\ Put(1, t, k, b, p)
  \/ \E t \in Threads, k \in EKeys, p \in 1..MaxWall :
       ConcTurn /\ Del(1, t, k, p)
  \/ \E t \in Threads, m \in Mutations(EKeys, EValues) :
       ConcTurn /\ ApplyMutation(1, t, m)
  \/ \E t \in Threads : StepWal(1, t, TRUE)
  \/ \E t \in Threads : StepApply(1, t)

SpecConc == InitEngine /\ [][NextConc]_vars

\* both threads ran one write to the same key to its end, with different
\* timestamps, and each had started before the other wrote anything
TwoConcurrent ==
  /\ \A t \in Threads :
       /\ thr[1][t].pc = "idle"
       /\ thr[1][t].out = "ok"
       /\ thr[1][t].snap.wal = <<>>
       /\ thr[1][t].snap.map = EmptyMap
  /\ thr[1][1].call.key = thr[1][2].call.key
  /\ thr[1][1].call.timestamp # thr[1][2].call.timestamp

\* C23: concurrent writes to one key are serialized as whole operations.
\* After two concurrent write operations (put, del or apply_mutation) on the
\* same key, in any interleaving, the value of the key and key:meta both
\* come from the same operation, the one with the greater timestamp.
C23_WholeOperations ==
  TwoConcurrent =>
    \E w \in {IF TsLess(thr[1][1].call.timestamp, thr[1][2].call.timestamp)
              THEN thr[1][2].call ELSE thr[1][1].call} :
      Read(map[1], w.key) = Written(w)

\* the shard map a new Engine rebuilds from the WAL file of engine 1
Recovered ==
  Replay([map |-> EmptyMap, merkle |-> MerkleInit], recover(wal[1]), 1, <<>>).st.map

\* C26: WAL order equals apply order per key. For any interleaving of
\* concurrent writes to the same key, once they have returned, a recovery of
\* the WAL rebuilds the value and the meta the Engine holds in memory.
C26_WalOrderIsApplyOrder ==
  (\A t \in Threads : thr[1][t].pc = "idle") =>
    \E r \in {Recovered} :
      \A k \in DOMAIN map[1] \cup DOMAIN r : get(r, k) = get(map[1], k)

(***************************************************************************)
(* SpecPair: two Engines with the same node id, each driven by its own     *)
(* sequence of put, patch_int, del and apply_mutation.  The engines share  *)
(* nothing, so engine 1 runs its whole sequence first.                     *)
(***************************************************************************)
InitPair ==
  /\ InitEngines([n \in Nodes |-> 1])
  /\ InitAux

\* engine n may be given one more call
PairTurn(n) ==
  /\ Len(log[1]) + Len(log[2]) < MaxPairOps
  /\ thr[1][1].pc = "idle" /\ thr[2][1].pc = "idle"
  /\ n = 1 => log[2] = <<>>

NextPair ==
  \E n \in Nodes :
    \/ /\ PairTurn(n)
       /\ \/ \E k \in EKeys, b \in EBodies, p \in 1..MaxWall : Put(n, 1, k, b, p)
          \/ \E k \in EKeys, f \in EFields, v \in EVals, p \in 1..MaxWall :
               PatchInt(n, 1, k, f, v, p)
          \/ \E k \in EKeys, p \in 1..MaxWall : Del(n, 1, k, p)
          \/ \E m \in Mutations(EKeys, EValues) : ApplyMutation(n, 1, m)
    \/ StepWal(n, 1, TRUE)
    \/ StepApply(n, 1)

SpecPair == InitPair /\ [][NextPair]_vars

\* C9: Merkle purity. Two engines whose calls have returned and whose maps are
\* identical (same keys, same value bytes, same meta, same tombstones) return
\* the same get_merkle_root_hash(), whatever sequences of calls led there.
C9_MerklePurity ==
  (thr[1][1].pc = "idle" /\ thr[2][1].pc = "idle" /\ map[1] = map[2])
    => get_root_hash(merkle[1]) = get_root_hash(merkle[2])

(***************************************************************************)
(* SpecWal: one WriteAheadLog (the file of engine 1) written with append   *)
(* and append_batch, then possibly cut at a byte position, then read by    *)
(* recover with a callback that collects its calls.  Every write succeeds; *)
(* keys are shorter than 65536 bytes; append is not called with op BATCH.  *)
(***************************************************************************)
\* records appended in one run
MaxRecs == 2
\* sub-operations in one batch
MaxBatch == 2

\* "k" and the empty key
WKeys == {<<107>>, <<>>}
\* "v:1" and the empty payload
WPayloads == {<<118, 58, 49>>, <<>>}
WOpCodes == {OpPut, OpPatchStr}

WBatchOps ==
  {[op |-> OpPut, key |-> <<107>>, value |-> <<118, 58, 49>>],
   [op |-> OpDelete, key |-> <<107>>, value |-> <<>>]}
WBatches ==
  UNION {[1..n -> WBatchOps] : n \in 0..MaxBatch}

RECURSIVE Flatten(_, _)
\* the operations of the calls i.. of a history of calls, in order
Flatten(calls, i) ==
  IF i > Len(calls) THEN <<>> ELSE calls[i] \o Flatten(calls, i + 1)

InitWal ==
  /\ InitEngines([n \in Nodes |-> n])
  /\ InitAux

\* wal.append(op, key, payload)
WAppend(op, key, payload) ==
  /\ wSeen = <<>> /\ ~wCut
  /\ Len(wOps) < MaxRecs
  /\ wal' = [wal EXCEPT ![1] = append(@, op, key, payload, TRUE)]
  /\ wOps' = Append(wOps, <<[op |-> op, key |-> key, payload |-> payload]>>)
  /\ UNCHANGED <<merkle, map, clock, node_id, thr, log, handed, walFails,
                 vMerkle, wCut, wSeen, rLog, net, inbox, vUnits>>

\* wal.append_batch(ops)
WAppendBatch(ops) ==
  /\ wSeen = <<>> /\ ~wCut
  /\ Len(wOps) < MaxRecs
  /\ wal' = [wal EXCEPT ![1] = append_batch(@, ops, TRUE)]
  /\ wOps' = Append(wOps, [i \in 1..Len(ops) |->
                             [op |-> ops[i].op, key |-> ops[i].key,
                              payload |-> ops[i].value]])
  /\ UNCHANGED <<merkle, map, clock, node_id, thr, log, handed, walFails,
                 vMerkle, wCut, wSeen, rLog, net, inbox, vUnits>>

\* the file loses its tail: it is cut to its first len bytes
WCut(len) ==
  /\ wSeen = <<>> /\ ~wCut
  /\ len < Len(wal[1])
  /\ wal' = [wal EXCEPT ![1] = SubSeq(@, 1, len)]
  /\ wCut' = TRUE
  /\ UNCHANGED <<merkle, map, clock, node_id, thr, log, handed, walFails,
                 vMerkle, wOps, wSeen, rLog, net, inbox, vUnits>>

\* wal.recover(callback), the callback recording (op, key, payload)
WRecover ==
  /\ wSeen = <<>>
  /\ LET calls == recover(wal[1])
     IN  wSeen' = <<[i \in 1..Len(calls) |->
                       [op |-> calls[i].op, key |-> calls[i].key,
                        payload |-> calls[i].payload]]>>
  /\ UNCHANGED <<merkle, map, wal, clock, node_id, thr, log, handed, walFails,
                 vMerkle, wOps, wCut, rLog, net, inbox, vUnits>>

NextWal ==
  \/ \E o \in WOpCodes, k \in WKeys, v \in WPayloads : WAppend(o, k, v)
  \/ \E ops \in WBatches : WAppendBatch(ops)
  \/ \E len \in 0..(Len(wal[1]) - 1) : WCut(len)
  \/ WRecover

SpecWal == InitWal /\ [][NextWal]_vars

IsPrefix(a, b) == Len(a) <= Len(b) /\ a = SubSeq(b, 1, Len(a))

\* C7: WAL round trip. recover after a sequence S of append and append_batch
\* calls invokes the callback with exactly the operations of S, the
\* sub-operations of a batch in batch order, in append order; and when the
\* file was cut at a byte position first, with a prefix of them.
C7_WalRoundTrip ==
  wSeen # <<>> =>
    IF wCut THEN IsPrefix(wSeen[1], Flatten(wOps, 1))
    ELSE wSeen[1] = Flatten(wOps, 1)

\* a cut inside a batch record: the records before it are replayed, none of
\* the sub-operations of the cut batch is
C7_Witness ==
  /\ wSeen # <<>>
  /\ wCut
  /\ Len(wOps) = 2
  /\ Len(wOps[1]) = 1
  /\ Len(wOps[2]) = 2
  /\ Len(wSeen[1]) = 1
  /\ Len(wal[1]) > Len(WalFrame(wOps[1][1].op, wOps[1][1].key, wOps[1][1].payload))
                     + HeaderSize + 4

(***************************************************************************)
(* SpecRecover: one Engine runs put, patch_int, del and apply_mutation;    *)
(* the process dies, the file keeps its first len bytes, and a new Engine  *)
(* is constructed on that file.  What the new Engine holds depends on the  *)
(* file only, so the process dies between calls.                           *)
(***************************************************************************)
\* "f" and "a:b"
RFields == {<<102>>, <<97, 58, 98>>}

\* the mutations a peer sends in SpecRecover: a value and a delete
RMutations ==
  {m \in Mutations(EKeys, EValues) :
     m.timestamp = [wall_time |-> MaxWall, logical |-> 0, node_id |-> 2]}

InitRecover ==
  /\ InitEngines([n \in Nodes |-> n])
  /\ InitAux

\* the process of engine n ends with len bytes of its WAL on disk, and
\* Engine(wal_path, node_id) is constructed on them
CrashRestart(n, len) ==
  LET calls == recover(SubSeq(wal[n], 1, len))
      r == Replay([map |-> EmptyMap, merkle |-> MerkleInit], calls, 1, <<>>)
  IN  /\ thr[n][1].pc = "idle"
      /\ rLog[n] = <<>>
      /\ wal[n] # <<>>
      /\ wal' = [wal EXCEPT ![n] = SubSeq(@, 1, len)]
      /\ map' = [map EXCEPT ![n] = r.st.map]
      /\ merkle' = [merkle EXCEPT ![n] = r.st.merkle]
      /\ clock' = [clock EXCEPT ![n] = ClockInit]
      /\ rLog' = [rLog EXCEPT ![n] = <<r.done>>]
      /\ UNCHANGED <<node_id, thr, log, handed, walFails, vMerkle, vWal, net, inbox, vUnits>>

NextRecover ==
  \/ /\ Len(log[1]) < MaxRecOps
     /\ \/ \E k \in EKeys, b \in EBodies : Put(1, 1, k, b, 1)
        \/ \E k \in EKeys, f \in RFields, v \in EVals : PatchInt(1, 1, k, f, v, 1)
        \/ \E k \in EKeys : Del(1, 1, k, 1)
        \/ \E m \in RMutations : ApplyMutation(1, 1, m)
  \/ StepWal(1, 1, TRUE)
  \/ StepApply(1, 1)
  \/ \E len \in 0..Len(wal[1]) : CrashRestart(1, len)

SpecRecover == InitRecover /\ [][NextRecover]_vars

\* C6: batch atomicity at recovery. For every BATCH record of the file the
\* new Engine was constructed on, intact or cut at any byte, recovery applied
\* all of its sub-operations or none of them: the value record is never
\* applied without the meta record of its batch, nor the meta without the
\* value.
C6_BatchAtomicity ==
  rLog[1] # <<>> =>
    \A i, j \in 1..Len(rLog[1][1]) :
      rLog[1][1][i].rec = rLog[1][1][j].rec
        => rLog[1][1][i].applied = rLog[1][1][j].applied

\* the step is a restart of engine 1 on its whole WAL file: everything the
\* calls before it appended was flushed
FullRestart ==
  /\ rLog[1] = <<>>
  /\ rLog'[1] # <<>>
  /\ wal'[1] = wal[1]

\* C16: restart equivalence. After any sequence of put, patch_int, del and
\* apply_mutation calls made one after the other, a flush and a restart on
\* the same WAL file, the recovered Engine returns the same bytes from get()
\* for every key and the same get_merkle_root_hash() as the Engine before
\* the restart.
C16_RestartEquivalence ==
  [][FullRestart =>
       /\ \A k \in DOMAIN map[1] \cup DOMAIN map'[1] :
            get(map'[1], k) = get(map[1], k)
       /\ get_root_hash(merkle'[1]) = get_root_hash(merkle[1])]_vars

(***************************************************************************)
(* SpecSync: two nodes, each an Engine with its SyncManager, joined by a   *)
(* mesh that delivers every message in order on each lane.  Clients put    *)
(* and delete on either node, a gossip tick of a node sends SYNC_INIT to   *)
(* its peer, and every delivered message runs in handle_message, as in the *)
(* wiring of test_sync_latency.cpp.  A tick fires when the exchange of the *)
(* tick before it is over: ticks are 2 s apart.                            *)
(***************************************************************************)
MaxSyncWrites == 2

SKeys == {<<97>>}
\* {"v":1}
SBodies == {<<123, 34, 118, 34, 58, 49, 125>>}

Eng(n) == [map |-> map[n], merkle |-> merkle[n], wal |-> wal[n]]

\* no message is on its way or in a handler
NetQuiet ==
  \A n \in Nodes : inbox[n] = <<>> /\ \A lane \in Lanes : net[n][lane] = <<>>

RECURSIVE Post(_, _, _)
\* mesh_.send for the messages i.. of sends, in order; a message to a node
\* that is no peer is dropped
Post(nw, sends, i) ==
  IF i > Len(sends) THEN nw
  ELSE LET sd == sends[i]
           dst == {n \in Nodes : node_id[n] = sd.to}
           nw1 == [n \in Nodes |->
                     IF n \in dst
                     THEN [nw[n] EXCEPT ![sd.lane] = Append(@, sd.payload)]
                     ELSE nw[n]]
       IN  Post(nw1, sends, i + 1)

\* the put and del calls that returned, on all nodes
WritesDone == Len(log[1]) + Len(log[2])

\* a whole put or del call on node n: the clock is read, the batch is
\* appended to the WAL, the value and the meta are applied
WriteCall(n, call, batch, calls) ==
  LET st == ApplyCall(ApplyCall(St(n), calls[1]), calls[2])
      th == [StartOp(n, call, batch, calls) EXCEPT !.pc = "idle", !.out = "ok"]
  IN  /\ map' = [map EXCEPT ![n] = st.map]
      /\ merkle' = [merkle EXCEPT ![n] = st.merkle]
      /\ wal' = [wal EXCEPT ![n] = append_batch(@, batch, TRUE)]
      /\ handed' = [handed EXCEPT ![n] = @ \cup {batch[i] : i \in 1..Len(batch)}]
      /\ log' = [log EXCEPT ![n] = Append(@, LogEntry(th))]

\* Engine::put, from clock_.now() to its return
SyncPut(n, key, json_body, phys) ==
  /\ WritesDone < MaxSyncWrites
  /\ clock' = [clock EXCEPT ![n] = ClockNow(@, phys)]
  /\ LET now == ClockStamp(clock'[n], node_id[n])
         call == [NoCall EXCEPT !.kind = "put", !.key = key,
                                !.value = json_body, !.timestamp = now]
     IN  WriteCall(n, call, PutBatch(key, json_body, now),
                   PutCalls(key, json_body, now))
  /\ UNCHANGED <<node_id, thr, walFails, vAux>>

\* Engine::del, from clock_.now() to its return
SyncDel(n, key, phys) ==
  /\ WritesDone < MaxSyncWrites
  /\ clock' = [clock EXCEPT ![n] = ClockNow(@, phys)]
  /\ LET now == ClockStamp(clock'[n], node_id[n])
         call == [NoCall EXCEPT !.kind = "del", !.key = key,
                                !.is_delete = TRUE, !.timestamp = now]
     IN  WriteCall(n, call, DelBatch(key, now), DelCalls(key, now))
  /\ UNCHANGED <<node_id, thr, walFails, vAux>>

\* trigger_gossip on node n: send_sync_init to one of its peers
Gossip(n) ==
  /\ NetQuiet
  /\ \E peer \in Nodes \ {n} :
       net' = Post(net, <<Send(node_id[peer], "Control",
                               MsgInit(node_id[n], get_root_hash(merkle[n])))>>, 1)
  /\ merkle' = [merkle EXCEPT ![n] = recompute_dirty(@)]
  /\ UNCHANGED <<map, wal, clock, node_id, thr, log, handed, walFails,
                 vMerkle, vWal, rLog, inbox, vUnits>>

\* the mesh takes the oldest message of a lane to node n and calls the
\* on_message callback of n with it
Deliver(n, lane) ==
  /\ net[n][lane] # <<>>
  /\ inbox[n] = <<>>
  /\ inbox' = [inbox EXCEPT ![n] = <<Head(net[n][lane])>>]
  /\ net' = [net EXCEPT ![n][lane] = Tail(@)]
  /\ UNCHANGED <<vEngine, node_id, vMerkle, vWal, rLog, vUnits>>

\* SyncManager::handle_message on the message node n's callback was called
\* with: a payload of 5 bytes or more whose type byte is type goes to the
\* handler of that type (every payload of the model is built by a send_* or
\* a reply, so none is shorter and none has another type)
Arrived(n, type) ==
  /\ inbox[n] # <<>>
  /\ Len(inbox[n][1]) >= 5
  /\ inbox[n][1][1] = type

\* memcpy(&sender_id, &payload[1], 4)
SenderId(payload) == Val32(payload, 2)

\* the handler returned r: the engine it left, the messages it sent
Handled(n, r) ==
  /\ map' = [map EXCEPT ![n] = r.e.map]
  /\ merkle' = [merkle EXCEPT ![n] = r.e.merkle]
  /\ wal' = [wal EXCEPT ![n] = r.e.wal]
  /\ net' = Post(net, r.sends, 1)
  /\ handed' = IF r.applied # <<>> /\ ~IsStale(map[n], r.applied[1])
               THEN [handed EXCEPT ![n] =
                       @ \cup {MutationBatch(r.applied[1])[i] : i \in 1..2}]
               ELSE handed
  /\ inbox' = [inbox EXCEPT ![n] = <<>>]
  /\ UNCHANGED <<clock, node_id, thr, log, walFails, vMerkle, vWal, rLog, vUnits>>

OnSyncInit(n) ==
  /\ Arrived(n, SYNC_INIT)
  /\ \E r \in {on_sync_init(node_id[n], Eng(n), SenderId(inbox[n][1]),
                            inbox[n][1])} : Handled(n, r)

OnReqNode(n) ==
  /\ Arrived(n, SYNC_REQ_NODE)
  /\ \E r \in {on_req_node(node_id[n], Eng(n), SenderId(inbox[n][1]),
                           inbox[n][1])} : Handled(n, r)

\* the bytes of a byte b, n times
RECURSIVE Fill(_, _)
Fill(b, n) == IF n <= 0 THEN <<>> ELSE <<b>> \o Fill(b, n - 1)

\* on_rep_node copies 8 * Fanout bytes from &buf[13] without looking at
\* buf.size(): what it reads behind a payload that is shorter is whatever
\* the memory after the buffer holds.  Beyond is the contents that memory
\* can have, by what the loop makes of them: bytes that differ from the
\* hashes of node n (all 0, all 255) and the bytes of the hashes of node n.
Beyond(n, buf) ==
  IF Len(buf) < 13 \/ Len(buf) >= 13 + 8 * Fanout THEN {<<>>}
  ELSE {Fill(0, 13 + 8 * Fanout - Len(buf)),
        Fill(255, 13 + 8 * Fanout - Len(buf)),
        SubSeq(NodeHashes(merkle[n], buf[6], Val32(buf, 10), 0),
               Len(buf) - 12, 8 * Fanout)}

OnRepNode(n) ==
  /\ Arrived(n, SYNC_REP_NODE)
  /\ \E junk \in Beyond(n, inbox[n][1]) :
       \E r \in {on_rep_node(node_id[n], Eng(n), SenderId(inbox[n][1]),
                             inbox[n][1] \o junk)} : Handled(n, r)

OnReqBucket(n) ==
  /\ Arrived(n, SYNC_REQ_BUCKET)
  /\ \E r \in {on_req_bucket(node_id[n], Eng(n), SenderId(inbox[n][1]),
                             inbox[n][1])} : Handled(n, r)

OnRepBucket(n) ==
  /\ Arrived(n, SYNC_REP_BUCKET)
  /\ \E r \in {on_rep_bucket(node_id[n], Eng(n), SenderId(inbox[n][1]),
                             inbox[n][1])} : Handled(n, r)

OnGetVal(n) ==
  /\ Arrived(n, SYNC_GET_VAL)
  /\ \E r \in {on_get_val(node_id[n], Eng(n), SenderId(inbox[n][1]),
                          inbox[n][1])} : Handled(n, r)

OnPutVal(n) ==
  /\ Arrived(n, SYNC_PUT_VAL)
  /\ \E r \in {on_put_val(node_id[n], Eng(n), SenderId(inbox[n][1]),
                          inbox[n][1])} : Handled(n, r)

InitSync ==
  /\ InitEngines([n \in Nodes |-> n])
  /\ InitAux

NextSync ==
  \/ \E n \in Nodes, k \in SKeys, b \in SBodies, p \in 1..MaxWall :
       SyncPut(n, k, b, p)
  \/ \E n \in Nodes, k \in SKeys, p \in 1..MaxWall : SyncDel(n, k, p)
  \/ \E n \in Nodes : Gossip(n)
  \/ \E n \in Nodes, lane \in Lanes : Deliver(n, lane)
  \/ \E n \in Nodes : OnSyncInit(n)
  \/ \E n \in Nodes : OnReqNode(n)
  \/ \E n \in Nodes : OnRepNode(n)
  \/ \E n \in Nodes : OnReqBucket(n)
  \/ \E n \in Nodes : OnRepBucket(n)
  \/ \E n \in Nodes : OnGetVal(n)
  \/ \E n \in Nodes : OnPutVal(n)

SpecSync == InitSync /\ [][NextSync]_vars

\* The scheduling the convergence of the nodes rests on:
\*  - the mesh delivers every message it holds (weak fairness of Deliver);
\*  - a callback that was called returns: weak fairness of the handlers of
\*    node n, written without ENABLED, which for them is inbox[n] # <<>>,
\*    and only a handler empties inbox[n];
\*  - the gossip loop of every node keeps ticking: strong fairness of
\*    Gossip(n), written without ENABLED, which for Gossip is NetQuiet.
FairSync ==
  /\ SpecSync
  /\ \A n \in Nodes, lane \in Lanes : WF_vars(Deliver(n, lane))
  /\ \A n \in Nodes : []<>(inbox[n] = <<>>)
  /\ <>[](~NetQuiet) \/ \A n \in Nodes : []<><<Gossip(n)>>_vars

\* the put and del calls to key that returned, on any node
WritesTo(key) ==
  {c \in UNION {{log[n][i].call : i \in 1..Len(log[n])} : n \in Nodes} :
     c.key = key}

\* the write to key with the greatest timestamp
LastWrite(key) ==
  CHOOSE c \in WritesTo(key) :
    \A d \in WritesTo(key) : TsLeq(d.timestamp, c.timestamp)

\* every node reads, of every key written, the value and the meta of the
\* write with the greatest timestamp
Converged ==
  \A key \in SKeys :
    WritesTo(key) # {} =>
      \A n \in Nodes : Read(map[n], key) = Written(LastWrite(key))

\* C1: once the writes have stopped, gossip ticks on every node and delivery
\* of every sync message eventually bring all nodes, for good, to the state
\* in which each key has the value and the meta of its greatest-timestamp
\* write.
C1_Convergence == <>[]Converged

\* the del calls to key that returned on node a
DelsOf(a, key) ==
  {c \in {log[a][i].call : i \in 1..Len(log[a])} : c.kind = "del" /\ c.key = key}

\* the delete of node a to key with the greatest timestamp
LastDel(a, key) ==
  CHOOSE c \in DelsOf(a, key) :
    \A d \in DelsOf(a, key) : TsLeq(d.timestamp, c.timestamp)

\* node a deleted key, and node b holds it live with an older timestamp
HoldsLiveOlder(a, b, key) ==
  /\ DelsOf(a, key) # {}
  /\ get(map[b], key) # <<>>
  /\ ~Read(map[b], key).meta.is_tombstone
  /\ TsLess(Read(map[b], key).meta.ts, LastDel(a, key).timestamp)

\* get(key) on node b is empty and its key:meta is the tombstone of the
\* delete of node a, with its timestamp
Tombstoned(a, b, key) ==
  /\ DelsOf(a, key) # {}
  /\ Read(map[b], key) = Written(LastDel(a, key))

InFlight ==
  UNION {{net[n][lane][i] : i \in 1..Len(net[n][lane])} : n \in Nodes, lane \in Lanes}
    \cup UNION {{inbox[n][i] : i \in 1..Len(inbox[n])} : n \in Nodes}

InFlightOf(type) == {msg \in InFlight : msg[1] = type}

RECURSIVE EntryKeys(_, _)
\* the keys of the [KeyLen:2][Key][Hash:8] entries of buf after byte pos
EntryKeys(buf, pos) ==
  IF pos + 10 > Len(buf) THEN <<>>
  ELSE LET klen == Val16(buf, pos + 1)
       IN  IF pos + 2 + klen + 8 > Len(buf) THEN <<>>
           ELSE <<SubSeq(buf, pos + 3, pos + 2 + klen)>>
                  \o EntryKeys(buf, pos + 2 + klen + 8)

\* C31: the count field of every REP_BUCKET message equals the number of
\* (key, hash) entries that follow it in the message, and no entry carries a
\* key ending in :meta, for any bucket content, buckets that hold meta keys
\* included.
C31_RepBucketCount ==
  \A msg \in InFlightOf(SYNC_REP_BUCKET) :
    \E keys \in {EntryKeys(msg, 13)} :
      /\ Val32(msg, 10) = Len(keys)
      /\ \A i \in 1..Len(keys) : ~EndsWith(keys[i], MetaSuffix)

\* handle_message of node n returns in this step
Handles(n) == inbox[n] # <<>> /\ inbox'[n] = <<>>

\* node n was handed an INIT that carries the root hash n computes itself
EqualInit(n) ==
  /\ Arrived(n, SYNC_INIT)
  /\ Len(inbox[n][1]) >= 13
  /\ SubSeq(inbox[n][1], 6, 13) = get_root_hash(merkle[n])

\* C32: a node that receives INIT carrying a root hash equal to its own
\* current root hash sends no message and changes no state: its map, its WAL
\* and its clock are as before and its Merkle tree answers every root and
\* node query as before (the lazy recompute that the root query runs only
\* brings the cached hashes up to date).
C32_EqualRootSilent ==
  [][\A n \in Nodes :
       EqualInit(n) /\ Handles(n) =>
         /\ net' = net
         /\ map' = map /\ wal' = wal /\ clock' = clock
         /\ recompute_dirty(merkle'[n]) = recompute_dirty(merkle[n])
         /\ \A o \in Nodes \ {n} : merkle'[o] = merkle[o]]_vars

\* both nodes hold the key, and one is handling the INIT of the other, whose
\* root equals its own
C32_Witness ==
  \E n \in Nodes :
    /\ EqualInit(n)
    /\ get_root_hash(merkle[n]) # Zero64
    /\ \A o \in Nodes : DOMAIN map[o] # {}

\* the children of the REP_NODE msg whose hash differs from the hash node n
\* has for them
Differing(n, msg) ==
  {i \in 0..(Fanout - 1) :
     SubSeq(msg, 14 + i * 8, 21 + i * 8)
       # get_node_hash(merkle[n], msg[6], Val32(msg, 10) * Fanout + i)}

\* the request the drill-down makes for child i of the REP_NODE msg
Drill(n, msg, i) ==
  IF msg[6] < LeafLevel
  THEN MsgReqNode(node_id[n], msg[6] + 1, Val32(msg, 10) * Fanout + i)
  ELSE MsgReqBucket(node_id[n], Val32(msg, 10) * Fanout + i)

\* the messages this step put on the lane to node d, oldest first
Added(d, lane) ==
  SubSeq(net'[d][lane], Len(net[d][lane]) + 1, Len(net'[d][lane]))

\* C33: on REP_NODE(level, parent, child hashes) the receiver sends exactly
\* one message for each child i whose received hash differs from its own node
\* hash at (level, parent * Fanout + i): REQ_NODE(level + 1, child) when
\* level < 4, REQ_BUCKET(child) when level = 4, to the sender of the
\* REP_NODE; it sends nothing for a child whose hashes are equal, and nothing
\* else.
C33_DrillDown ==
  [][\A n \in Nodes :
       Arrived(n, SYNC_REP_NODE) /\ Handles(n) =>
         \E msg \in {inbox[n][1]} :
           \A d \in Nodes :
             /\ Added(d, "Heavy") = <<>>
             /\ node_id[d] # SenderId(msg) => Added(d, "Control") = <<>>
             /\ node_id[d] = SenderId(msg) =>
                  /\ Len(Added(d, "Control")) = Cardinality(Differing(n, msg))
                  /\ \A i \in Differing(n, msg) :
                       \E j \in 1..Len(Added(d, "Control")) :
                         Added(d, "Control")[j] = Drill(n, msg, i)]_vars

\* a node is handling a REP_NODE of the leaf level in which one child
\* differs and another is equal
C33_Witness ==
  \E n \in Nodes :
    /\ Arrived(n, SYNC_REP_NODE)
    /\ inbox[n][1][6] = LeafLevel
    /\ Differing(n, inbox[n][1]) # {}
    /\ Differing(n, inbox[n][1]) # 0..(Fanout - 1)

\* a node is handling a REP_NODE above the leaf level in which every child
\* differs
C33_WitnessInner ==
  \E n \in Nodes :
    /\ Arrived(n, SYNC_REP_NODE)
    /\ inbox[n][1][6] < LeafLevel
    /\ Differing(n, inbox[n][1]) = 0..(Fanout - 1)

\* the messages of the given type this step put on their way to node d
AddedOf(d, type) ==
  {msg \in UNION {{Added(d, lane)[j] : j \in 1..Len(Added(d, lane))} : lane \in Lanes} :
     msg[1] = type}

\* C34: session roles.  In the session node A starts by sending INIT to node
\* B, the REQ_NODE, REQ_BUCKET and GET_VAL messages are sent by A to B, the
\* PUT_VAL messages by B to A, and only A's engine is modified.  Stated on
\* the first step of the session after the INIT: B, handling the INIT of A,
\* sends no REQ_NODE to A.
C34_InitiatorAsks ==
  [][\A b \in Nodes :
       Arrived(b, SYNC_INIT) /\ Handles(b) =>
         \A a \in Nodes :
           node_id[a] = SenderId(inbox[b][1]) => AddedOf(a, SYNC_REQ_NODE) = {}]_vars

\* every message this step put on its way, to any node on any lane
AddedAll ==
  UNION {{Added(d, lane)[j] : j \in 1..Len(Added(d, lane))} :
           d \in Nodes, lane \in Lanes}

AddedCount ==
  Len(Added(1, "Control")) + Len(Added(1, "Heavy"))
    + Len(Added(2, "Control")) + Len(Added(2, "Heavy"))

\* rep is a message of the protocol step after msg
NextStep(msg, rep) ==
  CASE msg[1] = SYNC_INIT -> rep[1] = SYNC_REQ_NODE /\ rep[6] = 1
    [] msg[1] = SYNC_REQ_NODE -> rep[1] = SYNC_REP_NODE /\ rep[6] = msg[6]
    [] msg[1] = SYNC_REP_NODE ->
         IF msg[6] < LeafLevel
         THEN rep[1] = SYNC_REQ_NODE /\ rep[6] = msg[6] + 1
         ELSE rep[1] = SYNC_REQ_BUCKET
    [] msg[1] = SYNC_REQ_BUCKET -> rep[1] = SYNC_REP_BUCKET
    [] msg[1] = SYNC_REP_BUCKET -> rep[1] = SYNC_GET_VAL
    [] msg[1] = SYNC_GET_VAL -> rep[1] = SYNC_PUT_VAL
    [] OTHER -> FALSE

\* the most messages the handler of msg sends
MaxReplies(msg) ==
  CASE msg[1] = SYNC_REP_NODE -> Fanout
    [] msg[1] = SYNC_REP_BUCKET -> Len(EntryKeys(msg, 13))
    [] msg[1] = SYNC_PUT_VAL -> 0
    [] OTHER -> 1

\* C35: session termination.  Every session started by one INIT produces
\* finitely many messages and then goes quiet without a FIN: no handler
\* sends INIT, the REQ_NODE/REP_NODE exchange descends at most to level 4,
\* each REQ_BUCKET, GET_VAL and PUT_VAL produces at most the replies of the
\* next protocol step, PUT_VAL none, and the network falls quiet again and
\* again.
C35_SessionEnds ==
  /\ [][\A n \in Nodes :
          Handles(n) =>
            \E msg \in {inbox[n][1]} :
              /\ \A rep \in AddedAll : NextStep(msg, rep)
              /\ AddedCount <= MaxReplies(msg)]_vars
  /\ [](\A msg \in InFlightOf(SYNC_REQ_NODE) \cup InFlightOf(SYNC_REP_NODE) :
          msg[6] \in 1..LeafLevel)
  /\ []<>NetQuiet

\* a session ran to its PUT_VAL and ended: the network is quiet and a node
\* that wrote nothing itself holds the key
C35_Witness ==
  /\ NetQuiet
  /\ \E b \in Nodes : log[b] = <<>> /\ DOMAIN map[b] # {}

(***************************************************************************)
(* SpecPeer: SpecSync in which a node also receives, from its peer, sync   *)
(* messages that no handler of the peer builds at that moment: a GET_VAL   *)
(* for a key the node does not hold, and a REP_NODE that was cut short.    *)
(* handle_message runs on whatever bytes the mesh hands it.                *)
(***************************************************************************)
\* a key no client writes: "b"
AbsentKey == <<98>>

\* a REP_NODE of node p for the children of the root, cut after h child
\* hashes
ShortRepNode(p, h) ==
  <<SYNC_REP_NODE>> \o Le32(node_id[p]) \o <<1, 0, 0, 0>> \o Le32(0)
    \o SubSeq(NodeHashes(merkle[p], 1, 0, 0), 1, 8 * h)

\* the messages node p sends outside a session, each on the lane its send_*
\* uses
PeerMsgs(p, n) ==
  {Send(node_id[n], "Heavy", MsgGetVal(node_id[p], AbsentKey))}
    \cup {Send(node_id[n], "Control", ShortRepNode(p, h)) : h \in 0..(Fanout - 1)}

\* mesh_.send of node p to node n with one of these messages
PeerSend(p, n) ==
  /\ NetQuiet
  /\ p # n
  /\ \E sd \in PeerMsgs(p, n) : net' = Post(net, <<sd>>, 1)
  /\ UNCHANGED <<vEngine, node_id, vMerkle, vWal, rLog, inbox, vUnits>>

NextPeer ==
  \/ NextSync
  \/ \E p \in Nodes, n \in Nodes : PeerSend(p, n)

SpecPeer == InitSync /\ [][NextPeer]_vars

\* the PUT_VAL of node for key with an empty meta and an empty value
EmptyPutVal(node, key) ==
  <<SYNC_PUT_VAL>> \o Le32(node) \o Le16(Len(key)) \o key \o Le16(0)

\* node b was handed a GET_VAL for a key whose key:meta it does not hold
GetValNoMeta(b) ==
  /\ Arrived(b, SYNC_GET_VAL)
  /\ get(map[b], MetaKey(SubSeq(inbox[b][1], 6, Len(inbox[b][1])))) = <<>>

\* C36: when B receives GET_VAL for a key for which it holds no meta, B
\* answers with a PUT_VAL carrying empty meta and empty value (and the
\* requester's engine is unchanged by that answer).  Stated on the answer:
\* the step in which B handles such a GET_VAL sends exactly that PUT_VAL to
\* the requester.
C36_AnswersEmpty ==
  [][\A b \in Nodes :
       GetValNoMeta(b) /\ Handles(b) =>
         \E msg \in {inbox[b][1]} :
           /\ AddedCount = 1
           /\ \A a \in Nodes :
                node_id[a] = SenderId(msg) =>
                  AddedOf(a, SYNC_PUT_VAL)
                    = {EmptyPutVal(node_id[b], SubSeq(msg, 6, Len(msg)))}]_vars

\* node n was handed a REP_NODE that has its 13-byte header and fewer than
\* Fanout child hashes after it
ShortRepNodeAt(n) ==
  /\ Arrived(n, SYNC_REP_NODE)
  /\ Len(inbox[n][1]) >= 13
  /\ Len(inbox[n][1]) < 13 + 8 * Fanout

\* C37: a sync message whose payload is shorter than the full layout of its
\* type (a REP_NODE that carries fewer child hashes than a node has children
\* after its 13-byte header) is dropped: the handler reads nothing beyond
\* the payload, sends no message and changes no engine state.
C37_ShortDropped ==
  [][\A n \in Nodes :
       ShortRepNodeAt(n) /\ Handles(n) =>
         /\ AddedCount = 0
         /\ map' = map /\ wal' = wal
         /\ recompute_dirty(merkle'[n]) = recompute_dirty(merkle[n])]_vars

(***************************************************************************)
(* SpecService: the two nodes of SpecSync with the on_message callback of  *)
(* the service (main.cpp): the callback passes a message to                *)
(* handle_message if it came on the Control lane and returns without       *)
(* doing anything for any other lane.  No message of the Heavy lane gets   *)
(* to a handler, so the handlers of REP_BUCKET, GET_VAL and PUT_VAL have   *)
(* no step here.                                                           *)
(***************************************************************************)
\* the mesh takes the oldest message of a lane to node n and calls the
\* on_message callback of the service with it
ServiceDeliver(n, lane) ==
  /\ net[n][lane] # <<>>
  /\ inbox[n] = <<>>
  /\ inbox' = IF lane = "Control"
              THEN [inbox EXCEPT ![n] = <<Head(net[n][lane])>>]
              ELSE inbox
  /\ net' = [net EXCEPT ![n][lane] = Tail(@)]
  /\ UNCHANGED <<vEngine, node_id, vMerkle, vWal, rLog, vUnits>>

NextService ==
  \/ \E n \in Nodes, k \in SKeys, b \in SBodies, p \in 1..MaxWall :
       SyncPut(n, k, b, p)
  \/ \E n \in Nodes, k \in SKeys, p \in 1..MaxWall : SyncDel(n, k, p)
  \/ \E n \in Nodes : Gossip(n)
  \/ \E n \in Nodes, lane \in Lanes : ServiceDeliver(n, lane)
  \/ \E n \in Nodes : OnSyncInit(n)
  \/ \E n \in Nodes : OnReqNode(n)
  \/ \E n \in Nodes : OnRepNode(n)
  \/ \E n \in Nodes : OnReqBucket(n)

SpecService == InitSync /\ [][NextService]_vars

\* C38: in the service wiring every sync message a peer sends reaches
\* handle_message on the receiver whatever lane it was sent on: a message
\* the mesh takes from a lane, REP_BUCKET, GET_VAL and PUT_VAL of the Heavy
\* lane included, is the message handle_message runs on next.
C38_EveryLaneHandled ==
  [][\A n \in Nodes, lane \in Lanes :
       net[n][lane] # <<>> /\ net'[n][lane] = Tail(net[n][lane]) =>
         inbox'[n] = <<Head(net[n][lane])>>]_vars

(***************************************************************************)
(* SpecHlc: one HybridLogicalClock on which now(), update() and            *)
(* reserve_logical() are called in any order; each call runs under the     *)
(* mutex of the clock, so the calls of several threads are one sequence.   *)
(* SpecClock: one HybridLogicalClock shared by the threads, each with its  *)
(* own ThreadLocalClock, and called directly as well; update() is not      *)
(* called.  ThreadLocalClock::now is not atomic: it takes the mutex of the *)
(* global clock only inside reserve_logical and inside the fallback now(). *)
(* Every get_physical_time() reads any value of PhysTimes: the physical    *)
(* clock may stand still, jump forward or go back.                         *)
(***************************************************************************)
MaxPhys == 1
MaxClockCalls == 4

PhysTimes == 0..MaxPhys

\* the timestamps update() is called with
Incoming ==
  [wall_time : PhysTimes, logical : {U32(0), Max32}, node_id : {1, 2}]

ClockEntry(op, by, ts) == [op |-> op, by |-> by, ts |-> ts]

CanCall == Len(clog) < MaxClockCalls

\* HybridLogicalClock::now called on the global clock itself
GNow(phys_now) ==
  /\ CanCall
  /\ gclock' = HlcNow(gclock, phys_now)
  /\ clog' = Append(clog, ClockEntry("now", 0, Stamp(gclock', node_id[1])))
  /\ UNCHANGED <<vBase, vMesh, lclock>>

\* HybridLogicalClock::update(incoming)
GUpdate(incoming, phys_now) ==
  /\ CanCall
  /\ gclock' = update(gclock, incoming, phys_now)
  /\ clog' = Append(clog, ClockEntry("update", 0, incoming))
  /\ UNCHANGED <<vBase, vMesh, lclock>>

\* HybridLogicalClock::reserve_logical(for_phys_time, BATCH_SIZE) called on
\* the global clock itself and returning a start
GReserve(for_phys_time, phys) ==
  /\ CanCall
  /\ \E r \in {reserve_logical(gclock, for_phys_time, BATCH_SIZE, phys)} :
       /\ r.ok
       /\ gclock' = r.c
       /\ clog' = Append(clog, ClockEntry("reserve", 0,
                     [wall_time |-> for_phys_time, logical |-> r.start,
                      node_id |-> node_id[1]]))
  /\ UNCHANGED <<vBase, vMesh, lclock>>

\* ThreadLocalClock::now, lines 77-90: read the time, try the batch
LNow(t, phys_now) ==
  /\ CanCall
  /\ lclock[t].pc = "idle"
  /\ IF CacheHit(lclock[t], phys_now)
     THEN /\ lclock' = [lclock EXCEPT ![t].cached_logical_next = Add32(@, 1)]
          /\ clog' = Append(clog, ClockEntry("hit", t,
                        [wall_time |-> lclock[t].cached_phys_time,
                         logical |-> lclock[t].cached_logical_next,
                         node_id |-> node_id[1]]))
     ELSE /\ lclock' = [lclock EXCEPT ![t] = CacheMiss(@, phys_now)]
          /\ UNCHANGED clog
  /\ UNCHANGED <<vBase, vMesh, gclock>>

\* ThreadLocalClock::now, lines 99-107: one attempt of the refill loop
LReserve(t, phys) ==
  /\ lclock[t].pc = "reserve"
  /\ \E r \in {reserve_logical(gclock, lclock[t].phys_now, BATCH_SIZE, phys)} :
       IF r.ok
       THEN /\ gclock' = r.c
            /\ lclock' = [lclock EXCEPT ![t] = Refilled(@, r.start)]
            /\ clog' = Append(clog, ClockEntry("refill", t,
                          [wall_time |-> lclock[t].phys_now, logical |-> r.start,
                           node_id |-> node_id[1]]))
       ELSE /\ lclock' = [lclock EXCEPT ![t].pc = "retry"]
            /\ UNCHANGED <<gclock, clog>>
  /\ UNCHANGED <<vBase, vMesh>>

\* ThreadLocalClock::now, lines 115-138: the reservation failed, the time
\* is read again
LRetry(t, next_phys) ==
  /\ lclock[t].pc = "retry"
  /\ lclock' = [lclock EXCEPT
                  ![t].pc = IF next_phys = lclock[t].phys_now
                            THEN "fallback" ELSE "reserve",
                  ![t].phys_now = next_phys]
  /\ UNCHANGED <<vBase, vMesh, gclock, clog>>

\* ThreadLocalClock::now, lines 133-136: return global_clock_->now()
LFallback(t, phys_now) ==
  /\ lclock[t].pc = "fallback"
  /\ gclock' = HlcNow(gclock, phys_now)
  /\ lclock' = [lclock EXCEPT ![t].pc = "idle"]
  /\ clog' = Append(clog, ClockEntry("now", t, Stamp(gclock', node_id[1])))
  /\ UNCHANGED <<vBase, vMesh>>

InitClock == InitEngines([n \in Nodes |-> n]) /\ InitAux

NextHlc ==
  \/ \E p \in PhysTimes : GNow(p)
  \/ \E m \in Incoming, p \in PhysTimes : GUpdate(m, p)
  \/ \E f \in PhysTimes, p \in PhysTimes : GReserve(f, p)

NextClock ==
  \/ \E p \in PhysTimes : GNow(p)
  \/ \E f \in PhysTimes, p \in PhysTimes : GReserve(f, p)
  \/ \E t \in Threads, p \in PhysTimes : LNow(t, p)
  \/ \E t \in Threads, p \in PhysTimes : LReserve(t, p)
  \/ \E t \in Threads, p \in PhysTimes : LRetry(t, p)
  \/ \E t \in Threads, p \in PhysTimes : LFallback(t, p)

SpecHlc == InitClock /\ [][NextHlc]_vars

SpecClock == InitClock /\ [][NextClock]_vars

\* the positions of the log at which HybridLogicalClock::now returned
GlobalNows == {i \in 1..Len(clog) : clog[i].op = "now"}

\* C11: HybridLogicalClock::now() never returns a timestamp less than or
\* equal to one it returned earlier on the same clock, whatever now(),
\* update() and reserve_logical() calls and physical clock readings lie
\* between the two
C11_NowMonotonic ==
  \A i \in GlobalNows, j \in GlobalNows :
    i < j => StampLess(clog[i].ts, clog[j].ts)

\* update(m) at position i and the first now() after it at position j
FirstNowAfter(i, j) ==
  /\ clog[i].op = "update"
  /\ j \in GlobalNows
  /\ i < j
  /\ \A k \in GlobalNows : ~(i < k /\ k < j)

\* C12: the first HybridLogicalClock::now() after update(m) returns a
\* timestamp strictly greater than m, for every incoming m
C12_Causality ==
  \A i \in 1..Len(clog), j \in 1..Len(clog) :
    FirstNowAfter(i, j) => StampLess(clog[i].ts, clog[j].ts)

\* the positions of the log at which ThreadLocalClock::now of thread t
\* returned
LocalNows(t) == {i \in 1..Len(clog) : clog[i].by = t}

\* C13: each ThreadLocalClock::now() returns a timestamp greater than the
\* one the previous call on the same ThreadLocalClock returned
C13_LocalMonotonic ==
  \A t \in Threads : \A i \in LocalNows(t), j \in LocalNows(t) :
    i < j => StampLess(clog[i].ts, clog[j].ts)

\* the (wall_time, logical) pairs a call hands out: one for a now(), the
\* whole range for a reservation
HandedOut(e) ==
  IF e.op \in {"reserve", "refill"}
  THEN {<<e.ts.wall_time, Add32(e.ts.logical, k)>> : k \in 0..(BATCH_SIZE - 1)}
  ELSE {<<e.ts.wall_time, e.ts.logical>>}

\* C14: no two now() calls return the same (wall_time, logical) pair, and
\* the ranges reserve_logical hands out overlap neither each other nor a
\* value the global now() returned
C14_Unique ==
  /\ \A i \in 1..Len(clog), j \in 1..Len(clog) :
       (i < j /\ clog[i].op # "hit" /\ clog[j].op # "hit")
         => HandedOut(clog[i]) \cap HandedOut(clog[j]) = {}
  /\ \A i \in 1..Len(clog), j \in 1..Len(clog) :
       (i < j /\ clog[i].by # 0 /\ clog[j].by # 0)
         => <<clog[i].ts.wall_time, clog[i].ts.logical>>
              # <<clog[j].ts.wall_time, clog[j].ts.logical>>
  /\ \A j \in 1..Len(clog) :
       clog[j].op = "hit" =>
         \E i \in 1..(j - 1) :
           /\ clog[i].op = "refill"
           /\ clog[i].by = clog[j].by
           /\ <<clog[j].ts.wall_time, clog[j].ts.logical>> \in HandedOut(clog[i])

\* two threads refilled their batch for the same physical tick, one of them
\* took a second timestamp from its batch, and the global now() was called
\* for that tick as well
C14_Witness ==
  \E i \in 1..Len(clog), j \in 1..Len(clog), k \in 1..Len(clog) :
    /\ clog[i].op = "refill" /\ clog[j].op = "refill"
    /\ clog[i].by # clog[j].by
    /\ clog[k].op = "now"
    /\ clog[i].ts.wall_time = clog[k].ts.wall_time
    /\ clog[j].ts.wall_time = clog[k].ts.wall_time
    /\ \E h \in 1..Len(clog) : clog[h].op = "hit"

(***************************************************************************)
(* SpecLocalUpdate: one thread with its ThreadLocalClock, and update()     *)
(* called on the HybridLogicalClock it shares (ThreadLocalClock::update    *)
(* forwards to it and leaves the batch of the thread alone).               *)
(***************************************************************************)
NextLocalUpdate ==
  \/ \E m \in Incoming, p \in PhysTimes : GUpdate(m, p)
  \/ \E p \in PhysTimes : LNow(1, p)
  \/ \E p \in PhysTimes : LReserve(1, p)
  \/ \E p \in PhysTimes : LRetry(1, p)
  \/ \E p \in PhysTimes : LFallback(1, p)

SpecLocalUpdate == InitClock /\ [][NextLocalUpdate]_vars

\* the call at position j of the log is the first ThreadLocalClock::now of
\* its thread that returned after position i
FirstLocalAfter(i, j) ==
  /\ i < j
  /\ clog[j].by # 0
  /\ \A h \in (i + 1)..(j - 1) : clog[h].by # clog[j].by

\* C29: a ThreadLocalClock that still holds unused cached logical values for
\* a physical tick does not return a timestamp less than or equal to m after
\* update(m): the first now() on it after update(m), answered from the
\* batch, returns a timestamp strictly greater than m.
C29_BatchAfterUpdate ==
  \A i \in 1..Len(clog), j \in 1..Len(clog) :
    (clog[i].op = "update" /\ clog[j].op = "hit" /\ FirstLocalAfter(i, j))
      => StampLess(clog[i].ts, clog[j].ts)

(***************************************************************************)
(* SpecOverflow: one HybridLogicalClock that receives timestamps whose     *)
(* logical counter is one below the largest uint32_t, so that the counter  *)
(* of the clock stands at the largest value when the next call arrives.    *)
(***************************************************************************)
\* 0xFFFFFFFE
NearMax32 == <<Half - 1, Half - 2>>

IncomingNear ==
  [wall_time : PhysTimes, logical : {U32(0), NearMax32}, node_id : {2}]

NextOverflow ==
  \/ \E p \in PhysTimes : GNow(p)
  \/ \E m \in IncomingNear, p \in PhysTimes : GUpdate(m, p)
  \/ \E f \in PhysTimes, p \in PhysTimes : GReserve(f, p)

SpecOverflow == InitClock /\ [][NextOverflow]_vars

\* C30: logical counter overflow. When the logical counter is at its largest
\* 32-bit value and the physical clock has not advanced, now(), update() and
\* reserve_logical() do not wrap the counter to a smaller value: while the
\* wall time of the clock stays the same its logical counter never
\* decreases.
C30_NoWrap ==
  [][gclock'.max_wall_time = gclock.max_wall_time
       => ~Less32(gclock'.max_logical, gclock.max_logical)]_vars

(***************************************************************************)
(* SpecMesh: one Mesh whose threads call send, connected to a Mesh that    *)
(* listens.  msh.timers are the steady_timers of the simulated latency,    *)
(* msh.strand the handlers posted to the strand of the Connection and not  *)
(* run yet, msh.outbox its outbox_, msh.writes the async_write operations  *)
(* on the socket that have not completed, msh.hs the 4-byte handshake of    *)
(* the outbound Connection: "posted" when the handler of start() waits on  *)
(* the strand, "writing" while its async_write has not completed, "done"   *)
(* after.  The io_context is run by one                                    *)
(* thread, as in main.cpp and the tests: timers fire in the order of their *)
(* expiry.  A frame carries the position of its send call in mlog.sends.   *)
(***************************************************************************)
MaxSends == 3
MaxLatency == 1
MaxTime == 1

\* the peer that listens, and an id that is never connected
ListeningPeer == 10
StrangerPeer == 20

MLanes == {"Heavy"}
MPayloads == {<<7>>}

\* Mesh::connect(peer_id, host, port) to the listening Mesh: the socket is
\* connected, conn->start(true, my_id_) posts its handler to the strand, and
\* the peer goes into peers_
Connect(peer_id) ==
  /\ msh.sock = "none"
  /\ msh' = [msh EXCEPT !.peers = @ \cup {peer_id}, !.sock = "open",
                        !.hs = "posted"]
  /\ UNCHANGED <<vBase, vClock, mtime, mlog>>

\* the handler Connection::start posted runs on the strand: do_send_id
\* starts the async_write of the 4 bytes of the node id on the socket
StartRun ==
  /\ msh.hs = "posted"
  /\ msh' = [msh EXCEPT !.hs = "writing"]
  /\ UNCHANGED <<vBase, vClock, mtime, mlog>>

\* the completion handler of the async_write of do_send_id
HandshakeDone ==
  /\ msh.hs = "writing"
  /\ msh' = [msh EXCEPT !.hs = "done"]
  /\ UNCHANGED <<vBase, vClock, mtime, mlog>>

\* Mesh::do_accept of the listening Mesh, its handler running without error:
\* nothing is made of the accepted socket, which is destroyed with the handler
Accept ==
  /\ msh.sock = "open"
  /\ msh' = [msh EXCEPT !.sock = "dropped"]
  /\ UNCHANGED <<vBase, vClock, mtime, mlog>>

\* Mesh::set_simulated_latency(ms)
SetLatency(ms) ==
  /\ ms # msh.latency
  /\ msh' = [msh EXCEPT !.latency = ms]
  /\ UNCHANGED <<vBase, vClock, mtime, mlog>>

\* the steady clock moves on while a timer waits for it
Tick ==
  /\ mtime < MaxTime
  /\ \E i \in 1..Len(msh.timers) : msh.timers[i].expires > mtime
  /\ mtime' = mtime + 1
  /\ UNCHANGED <<vBase, vClock, msh, mlog>>

SendEntry(peer_id, lane, payload, ret, after) ==
  [peer |-> peer_id, lane |-> lane, payload |-> payload, ret |-> ret,
   after |-> after]

\* Mesh::send, lines 226-246: the lookup in peers_ under peers_mx_ and the
\* frame; an unknown peer returns false
SendCall(t, peer_id, lane, payload) ==
  /\ msh.th[t].pc = "idle"
  /\ Len(mlog.sends) < MaxSends
  /\ IF Known(msh.peers, peer_id)
     THEN /\ msh' = [msh EXCEPT !.th[t] =
                       [pc |-> "found", peer |-> peer_id, lane |-> lane,
                        payload |-> payload, after |-> Len(mlog.sends)]]
          /\ UNCHANGED mlog
     ELSE /\ mlog' = [mlog EXCEPT !.sends =
                        Append(@, SendEntry(peer_id, lane, payload, FALSE,
                                            Len(mlog.sends)))]
          /\ UNCHANGED msh
  /\ UNCHANGED <<vBase, vClock, mtime>>

\* Mesh::send, lines 248-269: with a latency the frame goes to a timer,
\* without one Connection::send posts it to the strand; return true
SendFinish(t) ==
  /\ msh.th[t].pc = "found"
  /\ \E f \in {[tag |-> Len(mlog.sends) + 1,
                frame |-> Frame(msh.th[t].lane, msh.th[t].payload)]} :
       IF msh.latency > 0
       THEN msh' = [msh EXCEPT !.th[t] = NoSend,
                               !.timers = Append(@, [expires |-> mtime + msh.latency,
                                                     tag |-> f.tag,
                                                     frame |-> f.frame])]
       ELSE msh' = [msh EXCEPT !.th[t] = NoSend, !.strand = Append(@, f)]
  /\ mlog' = [mlog EXCEPT !.sends =
                Append(@, SendEntry(msh.th[t].peer, msh.th[t].lane,
                                    msh.th[t].payload, TRUE, msh.th[t].after))]
  /\ UNCHANGED <<vBase, vClock, mtime>>

\* the timer at position i is the next to fire: it has expired and no timer
\* expires before it, nor at the same time and was set before it
NextTimer(i) ==
  /\ msh.timers[i].expires <= mtime
  /\ \A j \in 1..Len(msh.timers) :
       \/ msh.timers[j].expires > msh.timers[i].expires
       \/ (msh.timers[j].expires = msh.timers[i].expires /\ j >= i)

\* the wait handler of Mesh::send, lines 252-258: peer->conn->send(frame)
TimerFire(i) ==
  /\ NextTimer(i)
  /\ msh' = [msh EXCEPT
               !.timers = SubSeq(@, 1, i - 1) \o SubSeq(@, i + 1, Len(@)),
               !.strand = Append(@, [tag |-> msh.timers[i].tag,
                                     frame |-> msh.timers[i].frame])]
  /\ UNCHANGED <<vBase, vClock, mtime, mlog>>

\* the handler Connection::send posted runs on the strand, after the handler
\* of start(), which was posted before it: push_back, and do_write if no
\* write was in progress
StrandRun ==
  /\ msh.strand # <<>>
  /\ msh.hs # "posted"
  /\ msh' = [msh EXCEPT
               !.strand = Tail(@),
               !.outbox = Append(@, Head(msh.strand)),
               !.writes = IF msh.outbox # <<>> THEN @ ELSE @ + 1]
  /\ UNCHANGED <<vBase, vClock, mtime, mlog>>

\* the completion handler of do_write without error: the front frame is on
\* the socket; pop_front, and do_write again if the outbox holds more
WriteDone ==
  /\ msh.writes > 0
  /\ msh' = [msh EXCEPT
               !.outbox = Tail(@),
               !.writes = IF Tail(msh.outbox) # <<>> THEN @ ELSE @ - 1]
  /\ mlog' = [mlog EXCEPT !.wire = Append(@, Head(msh.outbox))]
  /\ UNCHANGED <<vBase, vClock, mtime>>

\* the completion handler of do_write with an error, the peer having closed
\* the socket: nothing is done, the frame stays at the front of the outbox
WriteFail ==
  /\ msh.writes > 0
  /\ msh.sock = "dropped"
  /\ msh' = [msh EXCEPT !.writes = @ - 1, !.failed = TRUE]
  /\ UNCHANGED <<vBase, vClock, mtime, mlog>>

InitMesh == InitEngines([n \in Nodes |-> n]) /\ InitAux

NextMesh ==
  \/ Connect(ListeningPeer)
  \/ StartRun
  \/ HandshakeDone
  \/ Accept
  \/ \E ms \in 0..MaxLatency : SetLatency(ms)
  \/ Tick
  \/ \E t \in Threads, peer_id \in {ListeningPeer, StrangerPeer},
        lane \in MLanes, payload \in MPayloads :
       SendCall(t, peer_id, lane, payload)
  \/ \E t \in Threads : SendFinish(t)
  \/ \E i \in 1..Len(msh.timers) : TimerFire(i)
  \/ StrandRun
  \/ WriteDone
  \/ WriteFail

SpecMesh == InitMesh /\ [][NextMesh]_vars

\* the send call at position a of mlog.sends returned before the one at
\* position b was made
ReturnedBefore(a, b) == a <= mlog.sends[b].after

\* C18: per-connection send order. The frames are written to the socket in
\* the order of the Mesh::send calls that returned true, one whole frame
\* after another with at most one write outstanding, for any interleaving of
\* the sending threads and for any simulated latency, set or changed between
\* the sends.
C18_SendOrder ==
  /\ msh.writes <= 1
  /\ \A i \in 1..Len(mlog.wire) :
       mlog.wire[i].frame = Frame(mlog.sends[mlog.wire[i].tag].lane,
                                  mlog.sends[mlog.wire[i].tag].payload)
  /\ \A i \in 1..Len(mlog.wire), j \in 1..Len(mlog.wire) :
       i < j => ~ReturnedBefore(mlog.wire[j].tag, mlog.wire[i].tag)

\* nothing is left to run: the listener has accepted the connection, no send
\* call, timer, strand handler or write is pending, and the outbox is empty
\* or its write has failed
Settled ==
  /\ msh.sock = "dropped"
  /\ \A t \in Threads : msh.th[t].pc = "idle"
  /\ msh.timers = <<>>
  /\ msh.strand = <<>>
  /\ msh.writes = 0
  /\ (msh.outbox = <<>> \/ msh.failed)

\* how often the listener's on_message was called with lane and payload, and
\* how often send returned true for them
TimesDelivered(lane, payload) ==
  Cardinality({i \in 1..Len(mlog.delivered) :
                 mlog.delivered[i] = [lane |-> lane, payload |-> payload]})
TimesSent(lane, payload) ==
  Cardinality({i \in 1..Len(mlog.sends) :
                 /\ mlog.sends[i].ret
                 /\ mlog.sends[i].lane = lane
                 /\ mlog.sends[i].payload = payload})

\* C19: exactly-once delivery on an open connection. Every frame a Mesh
\* sends after connect() to a listening Mesh is delivered to the listener's
\* on_message callback exactly once, with the same lane and a byte-identical
\* payload: when nothing is left to run, on_message has been called once for
\* every send that returned true.
C19_ExactlyOnce ==
  Settled =>
    \A lane \in MLanes, payload \in MPayloads :
      TimesDelivered(lane, payload) = TimesSent(lane, payload)

\* C20: Mesh::send to a peer id that is not in the peer table returns false,
\* enqueues nothing on any connection and leaves the peer table unchanged.
C20_UnknownPeer ==
  [][(/\ Len(mlog'.sends) = Len(mlog.sends) + 1
      /\ mlog'.sends[Len(mlog'.sends)].peer \notin msh.peers)
       => (/\ ~mlog'.sends[Len(mlog'.sends)].ret
           /\ msh' = msh)]_vars

\* send to the stranger returned false while the connection to the
\* listening peer held a frame in its outbox
C20_Witness ==
  /\ msh.peers = {ListeningPeer}
  /\ msh.outbox # <<>>
  /\ mlog.sends # <<>>
  /\ mlog.sends[Len(mlog.sends)].peer = StrangerPeer
  /\ ~mlog.sends[Len(mlog.sends)].ret

\* C39: handshake first.  On an outbound connection the first 4 bytes
\* written to the socket are the initiator's node id, and no byte of any
\* frame is written before the handshake write has completed, also when
\* Mesh::send is called right after connect() returns: while the write of
\* the node id has not completed, no write of a frame has been started and
\* no frame is on the socket.
C39_HandshakeFirst ==
  msh.hs # "done" => msh.writes = 0 /\ mlog.wire = <<>>

\* C40: after a read or write error on a peer's connection the connection is
\* closed and every later Mesh::send to that peer returns false, so that no
\* frame is accepted into an outbound queue that will never be written: a
\* send call made after the write error does not get past the lookup of the
\* peer and its connection.
C40_SendAfterError ==
  [][msh.failed =>
       \A t \in Threads : msh.th[t].pc = "idle" => msh'.th[t].pc = "idle"]_vars

(***************************************************************************)
(* SpecRepl: one ReplicationLog on which the threads call append and       *)
(* pop_batch; each call runs under mx_, so the calls are one sequence.  A  *)
(* mutation is the number of the append call that brought it.              *)
(***************************************************************************)
MaxQueue == 2
MaxReplCalls == 4
MaxLimit == 3

Appends == {i \in 1..Len(rhist) : rhist[i].op = "append"}

\* the mutations appended so far, in append order
Appended == [i \in 1..Cardinality(Appends) |-> i]

ReplEntry(op, t, arg, before, ret) ==
  [op |-> op, by |-> t, arg |-> arg, before |-> before, ret |-> ret]

\* ReplicationLog::append(m) called by thread t
RAppend(t) ==
  /\ Len(rhist) < MaxReplCalls
  /\ \E m \in {Cardinality(Appends) + 1} :
       /\ rq' = [rq EXCEPT !.queue = ReplAppend(@, m, rq.max_size)]
       /\ rhist' = Append(rhist, ReplEntry("append", t, m, rq.queue, <<>>))
  /\ UNCHANGED <<vCore, vClock, vMesh>>

\* ReplicationLog::pop_batch(limit) called by thread t
RPopBatch(t, limit) ==
  /\ Len(rhist) < MaxReplCalls
  /\ \E r \in {pop_batch(rq.queue, limit)} :
       /\ rq' = [rq EXCEPT !.queue = r.queue]
       /\ rhist' = Append(rhist, ReplEntry("pop_batch", t, limit, rq.queue, r.batch))
  /\ UNCHANGED <<vCore, vClock, vMesh>>

InitRepl ==
  /\ InitEngines([n \in Nodes |-> n])
  /\ InitMerkleVars /\ InitWalVars
  /\ rLog = [n \in Nodes |-> <<>>]
  /\ net = [n \in Nodes |-> [lane \in Lanes |-> <<>>]]
  /\ inbox = [n \in Nodes |-> <<>>]
  /\ InitClockVars /\ InitMeshVars
  /\ rq \in [queue : {<<>>}, max_size : 1..MaxQueue]
  /\ rhist = <<>>

NextRepl ==
  \/ \E t \in Threads : RAppend(t)
  \/ \E t \in Threads, limit \in 0..MaxLimit : RPopBatch(t, limit)

SpecRepl == InitRepl /\ [][NextRepl]_vars

\* the queue the call at position i of the history left
QueueAfter(i) == IF i = Len(rhist) THEN rq.queue ELSE rhist[i + 1].before

\* the last n entries of a sequence
LastN(q, n) == SubSeq(q, Len(q) - n + 1, Len(q))

\* the mutations some pop_batch returned
Popped == UNION {{rhist[i].ret[j] : j \in 1..Len(rhist[i].ret)} :
                   i \in 1..Len(rhist)}

\* C21: ReplicationLog is a bounded FIFO that drops the oldest. After any
\* interleaving of append and pop_batch calls the queue holds at most
\* max_size mutations, they are the most recent ones appended, in append
\* order, and none of them was popped; append puts its mutation last and
\* drops the oldest only from a full queue; pop_batch(limit) removes and
\* returns the min(limit, size) oldest in that order.
C21_BoundedFifo ==
  /\ Len(rq.queue) <= rq.max_size
  /\ rq.queue = LastN(Appended, Len(rq.queue))
  /\ \A j \in 1..Len(rq.queue) : rq.queue[j] \notin Popped
  /\ \A i \in 1..Len(rhist) :
       IF rhist[i].op = "append"
       THEN QueueAfter(i) =
              LastN(rhist[i].before \o <<rhist[i].arg>>,
                    Min(rq.max_size, Len(rhist[i].before) + 1))
       ELSE /\ Len(rhist[i].ret) = Min(rhist[i].arg, Len(rhist[i].before))
            /\ rhist[i].before = rhist[i].ret \o QueueAfter(i)

\* a mutation was dropped from a full queue, and a later pop_batch returned
\* fewer mutations than its limit and more than one
C21_Witness ==
  \E i \in 1..Len(rhist), j \in 1..Len(rhist) :
    /\ i < j
    /\ rhist[i].op = "append"
    /\ Len(rhist[i].before) = rq.max_size
    /\ rhist[j].op = "pop_batch"
    /\ Len(rhist[j].ret) = 2
    /\ rhist[j].arg > 2

(***************************************************************************)
(* SpecMerkle: one MerkleTree driven by apply_delta and get_root_hash.     *)
(***************************************************************************)
\* "k1", "k2"
MKeys == {<<107, 49>>, <<107, 50>>}
\* 0xAA, 0xBB
MDeltas == {U64(170), U64(187)}

NoMark == <<>>

InitMerkle ==
  /\ InitEngines([n \in Nodes |-> n])
  /\ InitAux

\* t.apply_delta(k, h)
MApplyDelta(k, h) ==
  /\ Len(mCalls) < MaxCalls
  /\ merkle' = [merkle EXCEPT ![1] = apply_delta(@, k, h)]
  /\ mCalls' = IF mMark = NoMark THEN mCalls ELSE Append(mCalls, <<k, h>>)
  /\ UNCHANGED <<mMark, map, wal, clock, node_id, thr, log, handed, walFails, vWal, rLog, net, inbox, vUnits>>

\* t.get_root_hash(), its result not kept
MGetRoot ==
  /\ merkle' = [merkle EXCEPT ![1] = recompute_dirty(@)]
  /\ UNCHANGED <<mMark, mCalls, map, wal, clock, node_id, thr, log, handed, walFails, vWal, rLog, net, inbox, vUnits>>

\* r = t.get_root_hash(), kept to compare later roots with
MGetRootMark ==
  /\ merkle' = [merkle EXCEPT ![1] = recompute_dirty(@)]
  /\ mMark' = <<get_root_hash(merkle[1])>>
  /\ mCalls' = <<>>
  /\ UNCHANGED <<map, wal, clock, node_id, thr, log, handed, walFails, vWal, rLog, net, inbox, vUnits>>

NextMerkle ==
  \/ \E k \in MKeys, h \in MDeltas : MApplyDelta(k, h)
  \/ MGetRoot
  \/ MGetRootMark

SpecMerkle == InitMerkle /\ [][NextMerkle]_vars

\* C10: XOR cancellation. After get_root_hash() returned r, two calls
\* apply_delta(k, h) with the same k and h make get_root_hash() return r again,
\* from any tree state, the freshly constructed tree included.
C10_XorCancellation ==
  (mMark # NoMark /\ Len(mCalls) = 2 /\ mCalls[1] = mCalls[2])
    => get_root_hash(merkle[1]) = mMark[1]

\* no dirty bit is set in tree m
NoDirty(m) ==
  \A l \in 0..LeafLevel : \A i \in 0..(LayerSize(l) - 1) : ~m.dirty[l][i]

\* every internal node of tree m is the hash of its children
AllHashed(m) ==
  \A l \in 0..(LeafLevel - 1) : \A i \in 0..(LayerSize(l) - 1) :
    m.layers[l][i] = NodeHash(m.layers[l + 1], i)

\* C28: after every get_root_hash() call, for any preceding sequence of
\* apply_delta calls, no dirty bit is set at any level and every internal
\* node at levels 0 to 3, also one whose subtree was never touched, equals
\* the hash of its children.
C28_CleanAfterRoot ==
  (mMark # NoMark /\ mCalls = <<>>) => (NoDirty(merkle[1]) /\ AllHashed(merkle[1]))

=============================================================================
